---- MODULE Spec2Model ----
(***************************************************************************)
(* Deadline reconciliation in Invaron/companion: the calendar-exam bridge  *)
(* (tp-exam-deadline-bridge.ts), the GitHub-README bridge                  *)
(* (github-student-tracker.ts) and the duplicate detector                  *)
(* (deadline-dedup.ts).                                                    *)
(*                                                                         *)
(* Strings are sequences of one-character strings, so that the             *)
(* normalisations of the source are computed, not assumed.  Instants are   *)
(* minutes since 1970-01-01T00:00Z.  A date string is a record             *)
(* [t, fmt]: fmt = "iso" is the spelling Date.prototype.toISOString        *)
(* produces, "alt" another spelling Date.parse accepts for the same        *)
(* instant, "bad" a string Date.parse rejects, "undefined" an absent       *)
(* optional field.                                                         *)
(***************************************************************************)
EXTENDS Integers, Sequences, FiniteSets, TLC

\* ------------------------------------------------------------------------
\* Characters and JavaScript string primitives
\* ------------------------------------------------------------------------

UpperSeq ==
  << "A", "B", "C", "D", "E", "F", "G", "H", "I", "J", "K", "L", "M",
     "N", "O", "P", "Q", "R", "S", "T", "U", "V", "W", "X", "Y", "Z" >>

LowerSeq ==
  << "a", "b", "c", "d", "e", "f", "g", "h", "i", "j", "k", "l", "m",
     "n", "o", "p", "q", "r", "s", "t", "u", "v", "w", "x", "y", "z" >>

UpperChars == { UpperSeq[i] : i \in 1..26 }

LowerChars == { LowerSeq[i] : i \in 1..26 }

DigitChars == { "0", "1", "2", "3", "4", "5", "6", "7", "8", "9" }

\* \w of a JavaScript regular expression
WordChars == UpperChars \cup LowerChars \cup DigitChars \cup { "_" }

\* \s of a JavaScript regular expression, within the modelled alphabet
SpaceChars == { " " }

AllChars == WordChars \cup SpaceChars \cup { "-", ":", "(", ")", "+", "*", ".", "|" }

IndexOf(c, seq) == CHOOSE i \in 1..Len(seq) : seq[i] = c

toLowerCase(s) ==
  [ i \in 1..Len(s) |->
      IF s[i] \in UpperChars THEN LowerSeq[IndexOf(s[i], UpperSeq)] ELSE s[i] ]

toUpperCase(s) ==
  [ i \in 1..Len(s) |->
      IF s[i] \in LowerChars THEN UpperSeq[IndexOf(s[i], LowerSeq)] ELSE s[i] ]

RECURSIVE DropWhile(_, _)
\* the suffix of s that starts at its first character outside cls
DropWhile(s, cls) ==
  IF s = << >> THEN << >>
  ELSE IF Head(s) \in cls THEN DropWhile(Tail(s), cls) ELSE s

RECURSIVE TakeWhile(_, _)
\* the longest prefix of s made of characters of cls
TakeWhile(s, cls) ==
  IF s = << >> THEN << >>
  ELSE IF Head(s) \in cls THEN << Head(s) >> \o TakeWhile(Tail(s), cls) ELSE << >>

RECURSIVE ReplaceRuns(_, _, _)
\* s.replace(/[cls]+/g, rep): every maximal run of characters of cls becomes rep
ReplaceRuns(s, cls, rep) ==
  IF s = << >> THEN << >>
  ELSE IF Head(s) \in cls
       THEN rep \o ReplaceRuns(DropWhile(s, cls), cls, rep)
       ELSE << Head(s) >> \o ReplaceRuns(Tail(s), cls, rep)

\* s.replace(/[cls]/g, rep): every single character of cls becomes rep
ReplaceEach(s, cls, rep) ==
  [ i \in 1..Len(s) |-> IF s[i] \in cls THEN rep ELSE s[i] ]

Reverse(s) == [ i \in 1..Len(s) |-> s[Len(s) + 1 - i] ]

\* String.prototype.trim
trim(s) == Reverse(DropWhile(Reverse(DropWhile(s, SpaceChars)), SpaceChars))

RECURSIVE Segments(_)
\* s cut into its maximal runs of word characters and of other characters
Segments(s) ==
  IF s = << >> THEN << >>
  ELSE LET cls == IF Head(s) \in WordChars THEN WordChars ELSE AllChars \ WordChars
           run == TakeWhile(s, cls)
       IN  << run >> \o Segments(SubSeq(s, Len(run) + 1, Len(s)))

IsWordRun(seg) == seg # << >> /\ seg[1] \in WordChars

\* the maximal word runs of s, in order: the only places where \bX\b can match
\* when X is made of word characters
Words(s) == SelectSeq(Segments(s), IsWordRun)

RECURSIVE Concat(_)
Concat(segs) == IF segs = << >> THEN << >> ELSE Head(segs) \o Concat(Tail(segs))

RECURSIVE Split(_, _)
\* s.split(sep) for a one-character separator
Split(s, sep) ==
  LET first == TakeWhile(s, AllChars \ { sep })
  IN  IF Len(first) = Len(s) THEN << s >>
      ELSE << first >> \o Split(SubSeq(s, Len(first) + 2, Len(s)), sep)

\* left.includes(right)
includes(left, right) ==
  \E i \in 0..(Len(left) - Len(right)) : SubSeq(left, i + 1, i + Len(right)) = right

Range(f) == { f[i] : i \in DOMAIN f }

\* ------------------------------------------------------------------------
\* Dates
\* ------------------------------------------------------------------------

NaN == -1

Undefined == [ t |-> NaN, fmt |-> "undefined" ]

InvalidDate == [ t |-> NaN, fmt |-> "bad" ]

\* Date.parse(value), in minutes; NaN for an unparseable string
DateParse(value) == IF value.fmt \in { "iso", "alt" } THEN value.t ELSE NaN

\* Number.isFinite
IsFinite(ms) == ms # NaN

\* new Date(ms).toISOString()
toISOString(ms) == [ t |-> ms, fmt |-> "iso" ]

\* Boolean(value) of an optional string field
Truthy(value) == value.fmt # "undefined"

\* days from 1970-01-01 to the first day of month m of year y
\* (proleptic Gregorian calendar)
DaysFromCivil(y, m) ==
  LET yy  == IF m <= 2 THEN y - 1 ELSE y
      era == yy \div 400
      yoe == yy - era * 400
      mp  == (m + 9) % 12
      doy == (153 * mp + 2) \div 5
      doe == yoe * 365 + yoe \div 4 - yoe \div 100 + doy
  IN  era * 146097 + doe - 719468

\* Date.UTC(year, month - 1, day, hour, minute, 0, 0), in minutes; a day past
\* the end of the month rolls over into the next month, as in JavaScript
DateUTC(year, month, day, hour, minute) ==
  ((DaysFromCivil(year, month) + (day - 1)) * 24 + hour) * 60 + minute

\* ------------------------------------------------------------------------
\* Deadline store (RuntimeStore: getDeadlines, createDeadline, updateDeadline)
\* ------------------------------------------------------------------------

\* the index of the first element of seq that satisfies P, 0 when there is none
\* (Array.prototype.findIndex, with 0 for -1)
FindIndex(seq, P(_)) ==
  LET hits == { i \in 1..Len(seq) : P(seq[i]) }
  IN  IF hits = { } THEN 0 ELSE CHOOSE i \in hits : \A j \in hits : i <= j

\* the user's deadline records, in the order the store lists them
getDeadlines(st) == st

\* the record createDeadline returns: the given fields under a fresh id
createDeadline(st, fields) ==
  [ id            |-> Len(st) + 1,
    course        |-> fields.course,
    task          |-> fields.task,
    dueDate       |-> fields.dueDate,
    sourceDueDate |-> fields.sourceDueDate,
    priority      |-> fields.priority,
    completed     |-> fields.completed ]

\* the record updateDeadline returns: the stored record with the fields of
\* patch replaced; callers test HasDeadline first (null when not found)
updateDeadline(st, id, patch) ==
  LET old == st[FindIndex(st, LAMBDA d : d.id = id)]
  IN  [ f \in DOMAIN old |-> IF f \in DOMAIN patch THEN patch[f] ELSE old[f] ]

HasDeadline(st, id) == \E i \in 1..Len(st) : st[i].id = id

\* seq with the element whose id is that of rec replaced by rec
ReplaceById(seq, rec) ==
  [ i \in 1..Len(seq) |-> IF seq[i].id = rec.id THEN rec ELSE seq[i] ]

\* ------------------------------------------------------------------------
\* Calendar-exam bridge (tp-exam-deadline-bridge.ts)
\* ------------------------------------------------------------------------

ExamKeywords ==
  { << "e", "x", "a", "m" >>,
    << "e", "x", "a", "m", "e", "n" >>,
    << "e", "k", "s", "a", "m", "e", "n" >>,
    << "m", "i", "d", "t", "e", "r", "m" >>,
    << "f", "i", "n", "a", "l" >>,
    << "w", "i", "s", "e", "f", "l", "o", "w" >> }

\* EXAM_KEYWORD_REGEX.test(text)
EXAM_KEYWORD_REGEX(text) ==
  \E w \in Range(Words(text)) : toLowerCase(w) \in ExamKeywords

\* w matches [A-Z]{lo,hi}\d{3} as a whole
IsCourseCode(w, lo, hi) ==
  /\ Len(w) - 3 \in lo..hi
  /\ \A i \in 1..(Len(w) - 3) : w[i] \in UpperChars
  /\ \A i \in (Len(w) - 2)..Len(w) : w[i] \in DigitChars

\* the empty string stands for null
Null == << >>

\* summary.toUpperCase().match(/\b[A-Z]{2,5}\d{3}\b/)?.[0] ?? null
extractCourseCode(summary) ==
  LET ws == Words(toUpperCase(summary))
      k  == FindIndex(ws, LAMBDA w : IsCourseCode(w, 2, 5))
  IN  IF k = 0 THEN Null ELSE ws[k]

exam_normalizeTextKey(value) ==
  trim(ReplaceRuns(ReplaceRuns(toLowerCase(value), AllChars \ (LowerChars \cup DigitChars), << " " >>),
                   SpaceChars, << " " >>))

toTitleCaseSentence(value) ==
  IF value = << >> THEN value
  ELSE toUpperCase(<< value[1] >>) \o SubSeq(value, 2, Len(value))

buildExamTaskLabel(summary, courseCode) ==
  LET segs        == Segments(summary)
      cut         == [ i \in 1..Len(segs) |->
                         IF IsWordRun(segs[i]) /\ toUpperCase(segs[i]) = toUpperCase(courseCode)
                         THEN << " " >> ELSE segs[i] ]
      withoutCode == trim(ReplaceRuns(Concat(cut), SpaceChars, << " " >>))
  IN  IF withoutCode = << >> THEN << "E", "x", "a", "m" >>
      ELSE toTitleCaseSentence(withoutCode)

exam_inferPriorityFromDueDate(dueDate, now) ==
  LET dueMs == DateParse(dueDate)
  IN  IF ~IsFinite(dueMs) THEN "medium"
      ELSE IF dueMs - now <= 24 * 60 THEN "critical"
      ELSE IF dueMs - now <= 96 * 60 THEN "high"
      ELSE "medium"

isExamEvent(event) ==
  EXAM_KEYWORD_REGEX(event.summary \o << " " >> \o event.description)

RECURSIVE SortByDueDate(_)
\* Array.prototype.sort by Date.parse(dueDate), ascending and stable
SortByDueDate(seq) ==
  IF seq = << >> THEN << >>
  ELSE LET n      == Len(seq)
           sorted == SortByDueDate(SubSeq(seq, 1, n - 1))
           x      == seq[n]
           k      == Cardinality({ i \in 1..Len(sorted) :
                                     DateParse(sorted[i].dueDate) <= DateParse(x.dueDate) })
       IN  SubSeq(sorted, 1, k) \o << x >> \o SubSeq(sorted, k + 1, Len(sorted))

\* the event accepted by the loop body, as a candidate
ExamCandidate(event, now) ==
  LET courseCode == extractCourseCode(event.summary)
      dueDate    == toISOString(DateParse(event.startTime))
  IN  [ course        |-> courseCode,
        task          |-> buildExamTaskLabel(event.summary, courseCode),
        dueDate       |-> dueDate,
        sourceDueDate |-> dueDate,
        priority      |-> exam_inferPriorityFromDueDate(dueDate, now) ]

\* the conditions under which the loop body reaches the candidate
ExamEventAccepted(event, now) ==
  /\ isExamEvent(event)
  /\ extractCourseCode(event.summary) # Null
  /\ IsFinite(DateParse(event.startTime))
  /\ ~(DateParse(event.startTime) <= now)

ExamDedupKey(c) == << c.course, exam_normalizeTextKey(c.task), c.dueDate >>

RECURSIVE ExamDedup(_, _, _)
\* the values of the dedup Map after the loop over events, in insertion order
ExamDedup(events, now, acc) ==
  IF events = << >> THEN acc
  ELSE LET event == Head(events)
           c     == ExamCandidate(event, now)
       IN  IF ExamEventAccepted(event, now)
              /\ ~\E i \in 1..Len(acc) : ExamDedupKey(acc[i]) = ExamDedupKey(c)
           THEN ExamDedup(Tail(events), now, Append(acc, c))
           ELSE ExamDedup(Tail(events), now, acc)

extractTPExamDeadlineCandidates(events, now) ==
  SortByDueDate(ExamDedup(events, now, << >>))

\* ------------------------------------------------------------------------
\* GitHub-README bridge (github-student-tracker.ts)
\* ------------------------------------------------------------------------

\* value.trim() when it is not empty, else null
asNonEmptyString(value) == trim(value)

github_normalizeTextKey(value) ==
  trim(ReplaceRuns(ReplaceRuns(toLowerCase(value), AllChars \ (LowerChars \cup DigitChars), << " " >>),
                   SpaceChars, << " " >>))

\* value.toUpperCase().match(/\b[A-Z]{3}\d{3}\b/g)?.[0] ?? upper.replace(/[^A-Z0-9]/g, "")
github_normalizeCourseKey(value) ==
  LET upper == toUpperCase(value)
      ws    == Words(upper)
      k     == FindIndex(ws, LAMBDA w : IsCourseCode(w, 3, 3))
  IN  IF k # 0 THEN ws[k]
      ELSE SelectSeq(upper, LAMBDA c : c \in UpperChars \cup DigitChars)

RECURSIVE StripTrailing(_, _)
\* s.replace(/[cls]+$/g, "")
StripTrailing(s, cls) ==
  IF s # << >> /\ s[Len(s)] \in cls THEN StripTrailing(SubSeq(s, 1, Len(s) - 1), cls) ELSE s

\* the class [_*`] is { "_", "*" } here: the modelled alphabet has no backquote
normalizeTaskLabel(value) ==
  LET compact ==
        StripTrailing(trim(ReplaceRuns(ReplaceEach(value, { "_", "*" }, " "),
                                       SpaceChars, << " " >>)),
                      { ".", ":", ",", ";" })
  IN  IF compact = << >> THEN << >>
      ELSE toUpperCase(<< compact[1] >>) \o SubSeq(compact, 2, Len(compact))

\* a match of DOTTED_DATE_REGEX is [day, month, year, hour, minute], hour and
\* minute being NoGroup when the optional time is absent
NoGroup == -1

toIsoFromDottedDateMatch(match) ==
  LET day    == match.day
      month  == match.month
      year   == match.year
      hour   == IF match.hour # NoGroup THEN match.hour ELSE 23
      minute == IF match.minute # NoGroup THEN match.minute ELSE 59
  IN  IF \/ month < 1 \/ month > 12 \/ day < 1 \/ day > 31
         \/ hour < 0 \/ hour > 23 \/ minute < 0 \/ minute > 59
      THEN Undefined
      ELSE toISOString(DateUTC(year, month, day, hour, minute))

github_inferPriorityFromDueDate(dueDate, now) ==
  LET dueMs == DateParse(dueDate)
  IN  IF ~IsFinite(dueMs) THEN "medium"
      ELSE IF dueMs - now <= 24 * 60 THEN "critical"
      ELSE IF dueMs - now <= 96 * 60 THEN "high"
      ELSE "medium"

DeadlineSignalWords ==
  { << "d", "e", "a", "d", "l", "i", "n", "e" >>,
    << "d", "u", "e" >>,
    << "a", "s", "s", "i", "g", "n", "m", "e", "n", "t" >>,
    << "p", "r", "o", "j", "e", "c", "t" >>,
    << "r", "e", "p", "o", "r", "t" >>,
    << "e", "x", "a", "m" >>,
    << "l", "a", "b" >> }

\* DEADLINE_SIGNAL_REGEX.test(text)
DEADLINE_SIGNAL_REGEX(text) ==
  \E w \in Range(Words(text)) : toLowerCase(w) \in DeadlineSignalWords

\* upsertReadmeDeadline without the comparison of the due dates: the line read
\* last replaces the entry
UpsertLastLine(byTaskKey, next) ==
  LET key == github_normalizeTextKey(next.task)
      k   == FindIndex(byTaskKey, LAMBDA e : github_normalizeTextKey(e.task) = key)
  IN  IF key = << >> THEN byTaskKey
      ELSE IF k = 0 THEN Append(byTaskKey, next)
      ELSE [ byTaskKey EXCEPT ![k] = next ]

\* byTaskKey is the Map as the sequence of its values in insertion order
upsertReadmeDeadline(byTaskKey, next) ==
  LET key == github_normalizeTextKey(next.task)
      k   == FindIndex(byTaskKey, LAMBDA e : github_normalizeTextKey(e.task) = key)
  IN  IF key = << >> THEN byTaskKey
      ELSE IF k = 0 THEN Append(byTaskKey, next)
      ELSE IF DateParse(next.dueDate) >= DateParse(byTaskKey[k].dueDate)
           THEN [ byTaskKey EXCEPT ![k] = next ]
           ELSE byTaskKey

\* the filter of pushCandidate on the due date: true when the candidate is kept
PushDueDateAccepted(dueMs, nowMs) == ~(~IsFinite(dueMs) \/ dueMs < nowMs)

\* pushCandidate(rawTask, dueDateIso) of parseGitHubCourseDeadlinesFromReadme;
\* Null and Undefined stand for the null arguments
pushCandidate(byTaskKey, rawTask, dueDateIso, courseCode, now) ==
  IF rawTask = Null \/ ~Truthy(dueDateIso) THEN byTaskKey
  ELSE IF ~DEADLINE_SIGNAL_REGEX(rawTask) THEN byTaskKey
  ELSE IF normalizeTaskLabel(rawTask) = << >> THEN byTaskKey
  ELSE IF ~PushDueDateAccepted(DateParse(dueDateIso), now) THEN byTaskKey
  ELSE upsertReadmeDeadline(byTaskKey,
         [ course        |-> courseCode,
           task          |-> normalizeTaskLabel(rawTask),
           dueDate       |-> dueDateIso,
           sourceDueDate |-> dueDateIso,
           priority      |-> github_inferPriorityFromDueDate(dueDateIso, now) ])

RECURSIVE PushBolds(_, _, _, _, _)
\* the loop over the bold sections of a table row
PushBolds(byTaskKey, bolds, dueDateIso, courseCode, now) ==
  IF bolds = << >> THEN byTaskKey
  ELSE PushBolds(pushCandidate(byTaskKey, asNonEmptyString(Head(bolds)), dueDateIso, courseCode, now),
                 Tail(bolds), dueDateIso, courseCode, now)

\* A README line is given by what the regular expressions of the parser find
\* in it: table (it matches /^\|.*\|$/ and contains "**"), signal (it matches
\* /(deadline|due)/i), dates (the matches of DOTTED_DATE_REGEX), bolds (the
\* captures of BOLD_SECTION_REGEX), explicitTask (the match of
\* DEADLINE_TASK_REGEX, or Null).
ParseLine(byTaskKey, line, courseCode, now) ==
  IF line.table
  THEN IF Len(line.dates) > 0
       THEN PushBolds(byTaskKey, line.bolds, toIsoFromDottedDateMatch(line.dates[1]), courseCode, now)
       ELSE byTaskKey
  ELSE IF ~line.signal THEN byTaskKey
  ELSE IF Len(line.dates) = 0 THEN byTaskKey
  ELSE LET dueDateIso == toIsoFromDottedDateMatch(line.dates[Len(line.dates)])
           \* line.match(BOLD_SECTION_REGEX)?.[1]: the regex is global, so
           \* this is the whole second match, asterisks included
           boldTask   == IF Len(line.bolds) >= 2
                         THEN << "*", "*" >> \o line.bolds[2] \o << "*", "*" >>
                         ELSE Null
           rawTask    == IF line.explicitTask # Null THEN line.explicitTask ELSE boldTask
       IN  pushCandidate(byTaskKey, rawTask, dueDateIso, courseCode, now)

RECURSIVE ParseLines(_, _, _, _)
ParseLines(byTaskKey, lines, courseCode, now) ==
  IF lines = << >> THEN byTaskKey
  ELSE ParseLines(ParseLine(byTaskKey, Head(lines), courseCode, now), Tail(lines), courseCode, now)

parseGitHubCourseDeadlinesFromReadme(markdown, courseCode, now) ==
  SortByDueDate(ParseLines(<< >>, markdown, courseCode, now))

\* the UTF-16 order of the characters a course code or an id is made of
CodeUnitOrder ==
  << "-", "0", "1", "2", "3", "4", "5", "6", "7", "8", "9" >> \o UpperSeq \o LowerSeq

RECURSIVE StrLess(_, _)
\* a < b in the default order of Array.prototype.sort, for course codes
StrLess(a, b) ==
  IF b = << >> THEN FALSE
  ELSE IF a = << >> THEN TRUE
  ELSE IF Head(a) = Head(b) THEN StrLess(Tail(a), Tail(b))
  ELSE IndexOf(Head(a), CodeUnitOrder) < IndexOf(Head(b), CodeUnitOrder)

RECURSIVE SortCodes(_)
SortCodes(codes) ==
  IF codes = { } THEN << >>
  ELSE LET least == CHOOSE c \in codes : \A d \in codes \ { c } : StrLess(c, d)
       IN  << least >> \o SortCodes(codes \ { least })

extractTPCourseCodes(events) ==
  SortCodes(UNION { { w \in Range(Words(toUpperCase(events[i].summary))) : IsCourseCode(w, 3, 3) } :
                    i \in 1..Len(events) })

\* ------------------------------------------------------------------------
\* Duplicate detector (deadline-dedup.ts).  The scores of the source are
\* floating-point numbers; here a number is an exact fraction [num, den],
\* den = 0 standing for +Infinity, and a distance in days is a number of
\* minutes over MinutesPerDay.
\* ------------------------------------------------------------------------

RECURSIVE GCD(_, _)
GCD(n, d) == IF d = 0 THEN n ELSE GCD(d, n % d)

\* the fraction n / d in lowest terms, for n >= 0 and d >= 0
Ratio(n, d) == [ num |-> n \div GCD(n, d), den |-> d \div GCD(n, d) ]

Zero == Ratio(0, 1)

PositiveInfinity == Ratio(1, 0)

\* x >= y, for finite fractions
AtLeast(x, y) == x.num * y.den >= y.num * x.den

MinutesPerDay == 24 * 60

STOP_WORDS ==
  { << "a", "s", "s", "i", "g", "n", "m", "e", "n", "t" >>,
    << "a", "s", "s", "i", "g", "n", "m", "e", "n", "t", "s" >>,
    << "l", "a", "b" >>,
    << "p", "r", "o", "j", "e", "c", "t" >>,
    << "t", "a", "s", "k" >>,
    << "d", "u", "e" >>,
    << "s", "u", "b", "m", "i", "s", "s", "i", "o", "n" >>,
    << "r", "e", "p", "o", "r", "t" >>,
    << "p", "a", "r", "t" >>,
    << "w", "e", "e", "k" >> }

dedup_normalizeCourseKey(course) ==
  LET upper == toUpperCase(course)
      \* the positions where /[A-Z]{3}\d{3}/ matches in upper
      codeMatch == { i \in 1..(Len(upper) - 5) :
                      /\ \A k \in 0..2 : upper[i + k] \in UpperChars
                      /\ \A k \in 3..5 : upper[i + k] \in DigitChars }
      first == CHOOSE i \in codeMatch : \A o \in codeMatch : i <= o
  IN  IF codeMatch # { } THEN SubSeq(upper, first, first + 5)
      ELSE ReplaceRuns(upper, AllChars \ (UpperChars \cup DigitChars), << >>)

normalizeTask(task) ==
  trim(ReplaceRuns(ReplaceEach(toLowerCase(task),
                               AllChars \ (LowerChars \cup DigitChars \cup SpaceChars), " "),
                   SpaceChars, << " " >>))

tokenizeTask(task) ==
  SelectSeq(Split(normalizeTask(task), " "),
            LAMBDA token : Len(token) > 1 /\ token \notin STOP_WORDS)

jaccardSimilarity(left, right) ==
  IF Len(left) = 0 \/ Len(right) = 0 THEN Zero
  ELSE LET leftSet == Range(left)
           rightSet == Range(right)
           intersection == Cardinality(leftSet \cap rightSet)
           unionSize == Cardinality(leftSet) + Cardinality(rightSet) - intersection
       IN  IF unionSize > 0 THEN Ratio(intersection, unionSize) ELSE Zero

taskSimilarity(leftTask, rightTask) ==
  LET left == normalizeTask(leftTask)
      right == normalizeTask(rightTask)
  IN  IF left = << >> \/ right = << >> THEN Zero
      ELSE IF left = right THEN Ratio(1, 1)
      ELSE IF (includes(left, right) \/ includes(right, left))
              /\ (IF Len(left) < Len(right) THEN Len(left) ELSE Len(right)) >= 8
           THEN Ratio(9, 10)
      ELSE jaccardSimilarity(tokenizeTask(left), tokenizeTask(right))

\* a detector that takes every two due dates for the same instant
NoDistance(leftDueDate, rightDueDate) == Zero

dueDateDistanceDays(leftDueDate, rightDueDate) ==
  IF DateParse(leftDueDate) = NaN \/ DateParse(rightDueDate) = NaN
  THEN PositiveInfinity
  ELSE IF DateParse(leftDueDate) < DateParse(rightDueDate)
       THEN Ratio(DateParse(rightDueDate) - DateParse(leftDueDate), MinutesPerDay)
       ELSE Ratio(DateParse(leftDueDate) - DateParse(rightDueDate), MinutesPerDay)

\* a detector without the course gate
NoCourseGate(leftCourse, rightCourse) == FALSE

\* the condition of the course gate of evaluateDuplicateSignal
CourseGate(leftCourse, rightCourse) ==
  leftCourse = << >> \/ rightCourse = << >> \/ leftCourse # rightCourse

evaluateDuplicateSignal(left, right) ==
  LET leftCourse == dedup_normalizeCourseKey(left.course)
      rightCourse == dedup_normalizeCourseKey(right.course)
      distance == dueDateDistanceDays(left.dueDate, right.dueDate)
      taskScore == taskSimilarity(left.task, right.task)
      \* Math.max(0, 1 - dueDistanceDays / 2)
      dueScore == IF 2 * distance.den - distance.num < 0 THEN Zero
                  ELSE Ratio(2 * distance.den - distance.num, 2 * distance.den)
      \* taskScore * 0.7 + dueScore * 0.3
      score == Ratio(7 * taskScore.num * dueScore.den + 3 * dueScore.num * taskScore.den,
                     10 * taskScore.den * dueScore.den)
  IN  IF CourseGate(leftCourse, rightCourse)
      THEN [ isDuplicate |-> FALSE, score |-> Zero, taskScore |-> Zero,
             dueDistanceDays |-> PositiveInfinity,
             courseKey |-> IF leftCourse # << >> THEN leftCourse ELSE rightCourse ]
      ELSE IF distance = PositiveInfinity \/ distance.num > 2 * distance.den
      THEN [ isDuplicate |-> FALSE, score |-> Zero, taskScore |-> Zero,
             dueDistanceDays |-> distance, courseKey |-> leftCourse ]
      ELSE [ isDuplicate |-> AtLeast(taskScore, Ratio(45, 100)) /\ AtLeast(score, Ratio(58, 100)),
             score |-> score, taskScore |-> taskScore,
             dueDistanceDays |-> distance, courseKey |-> leftCourse ]

RECURSIVE find(_, _)
\* find(parent, value): the root of value and parent after the path to the
\* root has been compressed
find(parent, value) ==
  IF parent[value] = value THEN [ parent |-> parent, root |-> value ]
  ELSE LET up == find(parent, parent[value])
       IN  [ parent |-> [ up.parent EXCEPT ![value] = up.root ], root |-> up.root ]

\* a union that joins nothing
NoUnion(parent, left, right) == parent

\* parent after union(parent, left, right)
union(parent, left, right) ==
  LET leftFound == find(parent, left)
      rightFound == find(leftFound.parent, right)
  IN  IF leftFound.root # rightFound.root
      THEN [ rightFound.parent EXCEPT ![rightFound.root] = leftFound.root ]
      ELSE rightFound.parent

\* ------------------------------------------------------------------------
\* Inputs of the bridge model
\* ------------------------------------------------------------------------

\* deadlines already in the store when the model starts
MaxSeed == 2

\* calendar events handed to one bridge run
MaxEvents == 2

\* lines of one README
MaxLines == 2

\* deadlines handed to the duplicate detector
MaxDeadlines == 3

\* deadlines handed to the duplicate detector when they make several groups
MaxRanked == 5

\* 2026-02-20T23:59Z, 2026-02-22T23:59Z and 2026-03-18T23:59Z
N0 == DateUTC(2026, 2, 20, 23, 59)

T1 == DateUTC(2026, 2, 22, 23, 59)

T2 == DateUTC(2026, 3, 18, 23, 59)

\* the instants the bridges are given as now
Nows == << N0 >>

DAT560 == << "D", "A", "T", "5", "6", "0" >>

DAT520 == << "D", "A", "T", "5", "2", "0" >>

TaskExam == << "E", "x", "a", "m" >>

TaskQuiz == << "Q", "u", "i", "z" >>

TaskLab1 == << "L", "a", "b", " ", "1" >>

\* the lists of at most max elements of pool
Lists(pool, max) == UNION { [ 1..k -> Range(pool) ] : k \in 0..max }

\* the lists of at most max elements of pool that keep the order of the pool
\* (for the inputs a bridge sorts or keys before it uses them)
SortedLists(pool, max) ==
  UNION { { [ i \in 1..k |-> pool[f[i]] ] :
            f \in { g \in [ 1..k -> 1..Len(pool) ] : \A i \in 1..(k - 1) : g[i] <= g[i + 1] } } :
          k \in 0..max }

Event(summary, description, startTime) ==
  [ summary |-> summary, description |-> description, startTime |-> startTime ]

LectureEvent ==
  Event(DAT560 \o << " ", "l", "e", "c", "t", "u", "r", "e" >>, << >>, toISOString(T1))

\* "DAT560 exam" starting now and on two later dates, "DAT560 quiz" (exam
\* keyword in the description only) on two dates, "DAT560 lecture", and an
\* exam whose start time does not parse
EventPool ==
  << Event(DAT560 \o << " ", "e", "x", "a", "m" >>, << >>, toISOString(N0)),
     Event(DAT560 \o << " ", "e", "x", "a", "m" >>, << >>, toISOString(T1)),
     Event(DAT560 \o << " ", "e", "x", "a", "m" >>, << >>, [ t |-> T2, fmt |-> "alt" ]),
     Event(DAT560 \o << " ", "q", "u", "i", "z" >>, << "f", "i", "n", "a", "l" >>, toISOString(T1)),
     Event(DAT560 \o << " ", "q", "u", "i", "z" >>, << "f", "i", "n", "a", "l" >>, toISOString(T2)),
     LectureEvent,
     Event(DAT560 \o << " ", "e", "x", "a", "m" >>, << >>, InvalidDate) >>

Calendars(n) == SortedLists(EventPool, n)

DottedDate(day, month, year, hour, minute) ==
  [ day |-> day, month |-> month, year |-> year, hour |-> hour, minute |-> minute ]

\* "| 8 | 22.02.2026 | **Exam** |", "| 8 | 22.02.2026 | **Lab 1** |",
\* "| 7 | 20.02.2026 | **Lab 1** |" (due now), "| 6 | 18.02.2026 | **Lab 1** |",
\* "| 9 | 31.13.2026 | **Lab 1** |" and
\* "- [22.02.2026] Exam deadline is extended to **18.03.2026 23.59**"
LinePool ==
  << [ table |-> TRUE, signal |-> FALSE, explicitTask |-> TaskExam,
       dates |-> << DottedDate(22, 2, 2026, NoGroup, NoGroup) >>, bolds |-> << TaskExam >> ],
     [ table |-> TRUE, signal |-> FALSE, explicitTask |-> TaskLab1,
       dates |-> << DottedDate(22, 2, 2026, NoGroup, NoGroup) >>, bolds |-> << TaskLab1 >> ],
     [ table |-> TRUE, signal |-> FALSE, explicitTask |-> TaskLab1,
       dates |-> << DottedDate(20, 2, 2026, NoGroup, NoGroup) >>, bolds |-> << TaskLab1 >> ],
     [ table |-> TRUE, signal |-> FALSE, explicitTask |-> TaskLab1,
       dates |-> << DottedDate(18, 2, 2026, NoGroup, NoGroup) >>, bolds |-> << TaskLab1 >> ],
     [ table |-> TRUE, signal |-> FALSE, explicitTask |-> TaskLab1,
       dates |-> << DottedDate(31, 13, 2026, NoGroup, NoGroup) >>, bolds |-> << TaskLab1 >> ],
     [ table |-> FALSE, signal |-> TRUE, explicitTask |-> TaskExam,
       dates |-> << DottedDate(22, 2, 2026, NoGroup, NoGroup), DottedDate(18, 3, 2026, 23, 59) >>,
       bolds |-> << << "1", "8", ".", "0", "3", ".", "2", "0", "2", "6", " ", "2", "3", ".", "5", "9" >> >> ] >>

Readmes == SortedLists(LinePool, MaxLines)

Fetched(kind, lines) == [ kind |-> kind, lines |-> lines ]

\* what the repository search and the README download give for one course
FetchResults ==
  { Fetched(k, << >>) : k \in { "throw", "norepo", "noreadme" } }
    \cup { Fetched("readme", r) : r \in Readmes }

\* the course codes a calendar of the model can name
CourseCodes == { DAT560, DAT520 }

\* fetch results in which only DAT560 has a repository
OnlyDAT560(fetched) ==
  [ c \in CourseCodes |-> IF c = DAT560 THEN fetched ELSE Fetched("norepo", << >>) ]

\* The inputs of a GitHub-bridge run: a calendar without any course code, a
\* user without GitHub server, and a calendar that names DAT560 with each
\* outcome of the repository search and README download.
GithubInputs ==
  { [ events |-> << >>, hasServer |-> TRUE, fetch |-> [ c \in CourseCodes |-> Fetched("norepo", << >>) ] ],
    [ events |-> << LectureEvent >>, hasServer |-> FALSE,
      fetch |-> [ c \in CourseCodes |-> Fetched("norepo", << >>) ] ] }
    \cup { [ events |-> << LectureEvent >>, hasServer |-> TRUE, fetch |-> OnlyDAT560(f) ] :
           f \in FetchResults }

\* A calendar that names DAT520 and DAT560 (the run takes DAT520 first), with,
\* for each course, a tool call that throws, no repository, no README, a
\* README with one deadline ("| 8 | 22.02.2026 | **Lab 1** |"), a README
\* whose one row is past ("| 6 | 18.02.2026 | **Lab 1** |") and, for DAT560, a
\* README with the exam row and the line that extends the exam deadline
TwoCourseInputs ==
  { [ events |-> << LectureEvent,
                    Event(DAT520 \o << " ", "l", "e", "c", "t", "u", "r", "e" >>, << >>, toISOString(T1)) >>,
      hasServer |-> TRUE,
      fetch |-> [ c \in CourseCodes |-> IF c = DAT560 THEN f ELSE g ] ] :
      f \in { Fetched(k, << >>) : k \in { "throw", "norepo", "noreadme" } }
             \cup { Fetched("readme", << LinePool[2] >>), Fetched("readme", << LinePool[4] >>),
                    Fetched("readme", << LinePool[1], LinePool[6] >>) },
      g \in { Fetched(k, << >>) : k \in { "throw", "norepo", "noreadme" } }
             \cup { Fetched("readme", << LinePool[2] >>), Fetched("readme", << LinePool[4] >>) } }

Deadline(course, task, dueDate, sourceDueDate, priority) ==
  [ course |-> course, task |-> task, dueDate |-> dueDate,
    sourceDueDate |-> sourceDueDate, priority |-> priority, completed |-> FALSE ]

\* Deadlines as a user enters them (no sourceDueDate), as each bridge creates
\* them (sourceDueDate = dueDate), and bridge-created deadlines whose due date
\* the user has moved since (to T1, from the source's T2), with who created
\* them.
SeedPool ==
  << [ by |-> "user",   d |-> Deadline(DAT560, TaskExam, toISOString(T1), Undefined, "high") ],
     [ by |-> "user",   d |-> Deadline(DAT560, TaskLab1, toISOString(T2), Undefined, "low") ],
     [ by |-> "exam",   d |-> Deadline(DAT560, TaskExam, toISOString(T1), toISOString(T1), "high") ],
     [ by |-> "exam",   d |-> Deadline(DAT560, TaskExam, toISOString(T1), toISOString(T2), "medium") ],
     [ by |-> "exam",   d |-> Deadline(DAT560, TaskQuiz, toISOString(T1), toISOString(T1), "high") ],
     [ by |-> "github", d |-> Deadline(DAT560, TaskLab1, toISOString(T1), toISOString(T1), "high") ],
     [ by |-> "github", d |-> Deadline(DAT560, TaskExam, toISOString(T1), toISOString(T2), "medium") ] >>

SeedLists == Lists(SeedPool, MaxSeed)

\* ------------------------------------------------------------------------
\* The pure functions of the bridges, tabulated over the strings and inputs
\* of the model (each table is the function of the same name, applied once)
\* ------------------------------------------------------------------------

NowSet == Range(Nows)

\* the table f with every entry computed (comparing a function computes it)
Tabulate(f) == IF f = f THEN f ELSE f

\* the course DAT560 as users write it: with a section suffix after a hyphen,
\* in lower case, and with the section digit appended
CourseSpellings ==
  << DAT560 \o << "-", "1" >>, toLowerCase(DAT560), DAT560 \o << "1" >> >>

\* every course and task label a stored deadline or a candidate can carry
Labels ==
  CourseCodes \cup Range(CourseSpellings) \cup { TaskExam, TaskQuiz, TaskLab1 }
    \cup { extractCourseCode(e.summary) : e \in Range(EventPool) }
    \cup { buildExamTaskLabel(e.summary, extractCourseCode(e.summary)) : e \in Range(EventPool) }
    \cup UNION { { normalizeTaskLabel(l.bolds[i]) : i \in 1..Len(l.bolds) } : l \in Range(LinePool) }
    \cup { normalizeTaskLabel(l.explicitTask) : l \in Range(LinePool) }

ExamTextKey == Tabulate([ s \in Labels |-> exam_normalizeTextKey(s) ])

ExamDeadlineText ==
  Tabulate([ c \in Labels, t \in Labels |-> EXAM_KEYWORD_REGEX(c \o << " " >> \o t) ])

GithubTextKey == Tabulate([ s \in Labels |-> github_normalizeTextKey(s) ])

GithubCourseKey == Tabulate([ s \in Labels |-> github_normalizeCourseKey(s) ])

ExamCandidatesOf ==
  Tabulate([ events \in Calendars(MaxEvents), n \in NowSet |->
               extractTPExamDeadlineCandidates(events, n) ])

ReadmeDeadlinesOf ==
  Tabulate([ markdown \in Readmes, c \in CourseCodes, n \in NowSet |->
               parseGitHubCourseDeadlinesFromReadme(markdown, c, n) ])

\* ------------------------------------------------------------------------
\* Reconciliation of the candidates against the store
\* ------------------------------------------------------------------------

isExamDeadline(deadline) == ExamDeadlineText[deadline.course, deadline.task]

\* The loop body of syncExamDeadlines for one candidate, in the steps below.
\* run is [store, existing, created, updated, skipped, createdDeadlines,
\* outcomes, conflicts]: the store, the snapshot existingDeadlines, the fields
\* of the result, which counter each candidate so far was added to, and which
\* candidates updateDeadline returned null for.

\* result.skipped += 1; continue
ExamSkip(run) == [ run EXCEPT !.skipped = @ + 1, !.outcomes = Append(@, "skipped") ]

\* a null answer of updateDeadline counted as an update
ExamConflictAsUpdate(run) ==
  [ run EXCEPT !.updated = @ + 1, !.outcomes = Append(@, "updated"),
               !.conflicts = Append(@, Len(run.outcomes) + 1) ]

\* } else { result.skipped += 1; }: store.updateDeadline(...) returned null
ExamConflict(run) ==
  [ ExamSkip(run) EXCEPT !.conflicts = Append(@, Len(run.outcomes) + 1) ]

\* the snapshot refresh and the counter after store.updateDeadline(...)
\* returned updated
ExamUpdated(run, updated) ==
  [ run EXCEPT !.store    = ReplaceById(run.store, updated),
               !.existing = ReplaceById(run.existing, updated),
               !.updated  = @ + 1,
               !.outcomes = Append(@, "updated") ]

\* store.updateDeadline(this.userId, target.id, patch) and what follows it
ExamUpdate(run, target, patch) ==
  IF HasDeadline(run.store, target.id)
  THEN ExamUpdated(run, updateDeadline(run.store, target.id, patch))
  ELSE ExamConflict(run)

\* if (exactManaged) { ... }
ExamExactManaged(run, candidate, exactManaged) ==
  LET needsUpdate == \/ exactManaged.course # candidate.course
                     \/ exactManaged.task # candidate.task
                     \/ exactManaged.priority # candidate.priority
  IN  IF ~needsUpdate THEN ExamSkip(run)
      ELSE ExamUpdate(run, exactManaged,
                      [ course   |-> candidate.course,
                        task     |-> candidate.task,
                        priority |-> candidate.priority ])

\* const nextDueDate = ...
ExamNextDueDate(candidate, managedSameTask) ==
  LET existingSourceDueDate ==
        IF Truthy(managedSameTask.sourceDueDate)
        THEN managedSameTask.sourceDueDate ELSE managedSameTask.dueDate
      userOverrodeDueDate   ==
        /\ Truthy(managedSameTask.sourceDueDate)
        /\ managedSameTask.dueDate # managedSameTask.sourceDueDate
      sourceDueDateChanged  == existingSourceDueDate # candidate.sourceDueDate
  IN  IF sourceDueDateChanged /\ ~userOverrodeDueDate
      THEN candidate.dueDate ELSE managedSameTask.dueDate

\* if (managedSameTask) { ... }, from needsUpdate on
ExamManagedSameTask(run, candidate, managedSameTask, nextDueDate) ==
  LET needsUpdate == \/ managedSameTask.course # candidate.course
                     \/ managedSameTask.task # candidate.task
                     \/ managedSameTask.sourceDueDate # candidate.sourceDueDate
                     \/ managedSameTask.dueDate # nextDueDate
                     \/ managedSameTask.priority # candidate.priority
  IN  IF ~needsUpdate THEN ExamSkip(run)
      ELSE ExamUpdate(run, managedSameTask,
                      [ course        |-> candidate.course,
                        task          |-> candidate.task,
                        dueDate       |-> nextDueDate,
                        sourceDueDate |-> candidate.sourceDueDate,
                        priority      |-> candidate.priority ])

\* a create that result.created does not count
ExamCreatedUncounted(run, created) ==
  [ run EXCEPT !.store            = Append(run.store, created),
               !.existing         = Append(run.existing, created),
               !.createdDeadlines = Append(@, created),
               !.outcomes         = Append(@, "created") ]

\* existingDeadlines.push(created) and the counters after store.createDeadline
ExamCreated(run, created) ==
  [ run EXCEPT !.store            = Append(run.store, created),
               !.existing         = Append(run.existing, created),
               !.created          = @ + 1,
               !.createdDeadlines = Append(@, created),
               !.outcomes         = Append(@, "created") ]

\* the end of the loop body without the test for a manual deadline
ExamCreateAlways(run, candidate, matchingDeadlines) ==
  ExamCreated(run, createDeadline(run.store,
                     [ course        |-> candidate.course,
                       task          |-> candidate.task,
                       dueDate       |-> candidate.dueDate,
                       sourceDueDate |-> candidate.sourceDueDate,
                       priority      |-> candidate.priority,
                       completed     |-> FALSE ]))

\* the end of the loop body: a manual deadline of the same task, or a create
ExamManualOrCreate(run, candidate, matchingDeadlines) ==
  IF \E i \in 1..Len(matchingDeadlines) : ~Truthy(matchingDeadlines[i].sourceDueDate)
  THEN ExamSkip(run)
  ELSE ExamCreated(run, createDeadline(run.store,
                          [ course        |-> candidate.course,
                            task          |-> candidate.task,
                            dueDate       |-> candidate.dueDate,
                            sourceDueDate |-> candidate.sourceDueDate,
                            priority      |-> candidate.priority,
                            completed     |-> FALSE ]))

\* the branch the loop body takes; exactIdx and managedIdx are the positions
\* in matchingDeadlines of exactManaged and managedSameTask (0: not found)
ExamBranch(run, candidate, matchingDeadlines, exactIdx, managedIdx) ==
  IF exactIdx # 0
  THEN ExamExactManaged(run, candidate, matchingDeadlines[exactIdx])
  ELSE IF managedIdx # 0
  THEN ExamManagedSameTask(run, candidate, matchingDeadlines[managedIdx],
                           ExamNextDueDate(candidate, matchingDeadlines[managedIdx]))
  ELSE ExamManualOrCreate(run, candidate, matchingDeadlines)

\* matchingDeadlines.find(...) for exactManaged and for managedSameTask
ExamFind(run, candidate, matchingDeadlines) ==
  ExamBranch(run, candidate, matchingDeadlines,
             FindIndex(matchingDeadlines,
                       LAMBDA d : d.sourceDueDate = candidate.sourceDueDate /\ isExamDeadline(d)),
             FindIndex(matchingDeadlines,
                       LAMBDA d : Truthy(d.sourceDueDate) /\ isExamDeadline(d)))

\* existingDeadlines.filter(...) by normalized course and task
ExamMatching(existingDeadlines, normalizedCourse, normalizedTask) ==
  SelectSeq(existingDeadlines,
            LAMBDA d : /\ ExamTextKey[d.course] = normalizedCourse
                       /\ ExamTextKey[d.task] = normalizedTask)

ExamReconcile(run, candidate) ==
  ExamFind(run, candidate,
           ExamMatching(run.existing, ExamTextKey[candidate.course], ExamTextKey[candidate.task]))

RECURSIVE ExamLoop(_, _)
ExamLoop(run, candidates) ==
  IF candidates = << >> THEN run
  ELSE ExamLoop(ExamReconcile(run, Head(candidates)), Tail(candidates))

\* return result, with the store as the run left it
ExamResult(final, candidates) ==
  [ store            |-> final.store,
    candidates       |-> candidates,
    created          |-> final.created,
    updated          |-> final.updated,
    skipped          |-> final.skipped,
    createdDeadlines |-> final.createdDeadlines,
    outcomes         |-> final.outcomes,
    existing         |-> final.existing,
    conflicts        |-> final.conflicts ]

\* syncExamDeadlines from the early return on
ExamSync(start, candidates) ==
  ExamResult(IF Len(candidates) = 0 THEN start ELSE ExamLoop(start, candidates), candidates)

\* syncExamDeadlines(events, now) when getDeadlines returned existingDeadlines
\* and the store is st by the time of the first write
ExamSyncFrom(st, existingDeadlines, events, now) ==
  ExamSync([ store            |-> st,
             existing         |-> existingDeadlines,
             created          |-> 0,
             updated          |-> 0,
             skipped          |-> 0,
             createdDeadlines |-> << >>,
             outcomes         |-> << >>,
             conflicts        |-> << >> ],
           ExamCandidatesOf[events, now])

\* TPExamDeadlineBridge.syncExamDeadlines(events, now) on store st: the store
\* after the call and the result object
syncExamDeadlines(st, events, now) == ExamSyncFrom(st, getDeadlines(st), events, now)

\* upsertImportedDeadline(store, userId, existingDeadlines, next), in the steps
\* below; run is [store, existing, imported, updated, skipped, outcomes, ...]:
\* the store, the snapshot existingDeadlines, the counters of the caller and
\* the outcome returned for each deadline so far.

\* return "skipped"
UpsertSkipped(run) == [ run EXCEPT !.skipped = @ + 1, !.outcomes = Append(@, "skipped") ]

\* if (!updated) { return "skipped"; }: store.updateDeadline(...) returned null
UpsertConflict(run) ==
  [ UpsertSkipped(run) EXCEPT !.conflicts = Append(@, Len(run.outcomes) + 1) ]

\* the snapshot refresh after store.updateDeadline(...); return "updated"
UpsertUpdated(run, updated) ==
  [ run EXCEPT !.store    = ReplaceById(run.store, updated),
               !.existing = ReplaceById(run.existing, updated),
               !.updated  = @ + 1,
               !.outcomes = Append(@, "updated") ]

\* if (sameTask) { ... }
UpsertSameTask(run, next, sameTask) ==
  LET managedBySource     == Truthy(sameTask.sourceDueDate)
      userOverrodeDueDate == managedBySource /\ sameTask.sourceDueDate # sameTask.dueDate
  IN  IF ~managedBySource \/ userOverrodeDueDate THEN UpsertSkipped(run)
      ELSE IF ~HasDeadline(run.store, sameTask.id) THEN UpsertConflict(run)
      ELSE UpsertUpdated(run, updateDeadline(run.store, sameTask.id,
                                [ dueDate       |-> next.dueDate,
                                  sourceDueDate |-> next.sourceDueDate,
                                  priority      |-> next.priority ]))

\* a create that replaces the newest record of the store
UpsertCreatedInPlace(run, created) ==
  [ run EXCEPT !.store    = IF Len(run.store) = 0 THEN << created >>
                            ELSE [ run.store EXCEPT ![Len(run.store)] = created ],
               !.existing = Append(run.existing, created),
               !.imported = @ + 1,
               !.outcomes = Append(@, "imported") ]

\* existingDeadlines.push(created); return "imported"
UpsertCreated(run, created) ==
  [ run EXCEPT !.store    = Append(run.store, created),
               !.existing = Append(run.existing, created),
               !.imported = @ + 1,
               !.outcomes = Append(@, "imported") ]

\* the branch the function takes; exactIdx and sameIdx are the positions in
\* existingDeadlines of exact and sameTask (0: not found)
UpsertBranch(run, next, exactIdx, sameIdx) ==
  IF exactIdx # 0 THEN UpsertSkipped(run)
  ELSE IF sameIdx # 0 THEN UpsertSameTask(run, next, run.existing[sameIdx])
  ELSE UpsertCreated(run, createDeadline(run.store,
                            [ course        |-> next.course,
                              task          |-> next.task,
                              dueDate       |-> next.dueDate,
                              sourceDueDate |-> next.sourceDueDate,
                              priority      |-> next.priority,
                              completed     |-> FALSE ]))

\* existingDeadlines.find(...) for exact and for sameTask
UpsertFind(run, next, nextCourse, nextTask) ==
  UpsertBranch(run, next,
               FindIndex(run.existing,
                         LAMBDA d : /\ GithubCourseKey[d.course] = nextCourse
                                    /\ GithubTextKey[d.task] = nextTask
                                    /\ d.dueDate = next.dueDate),
               FindIndex(run.existing,
                         LAMBDA d : /\ GithubCourseKey[d.course] = nextCourse
                                    /\ GithubTextKey[d.task] = nextTask))

upsertImportedDeadline(run, next) ==
  UpsertFind(run, next, GithubCourseKey[next.course], GithubTextKey[next.task])

RECURSIVE UpsertAll(_, _)
\* parsedDeadlines.forEach(upsertImportedDeadline)
UpsertAll(run, parsedDeadlines) ==
  IF parsedDeadlines = << >> THEN run
  ELSE UpsertAll(upsertImportedDeadline(run, Head(parsedDeadlines)), Tail(parsedDeadlines))

\* the README of the course was read: its deadlines are upserted
ImportReadme(run, courseCode, parsedDeadlines) ==
  [ UpsertAll(run, parsedDeadlines) EXCEPT !.repositoriesScanned = Append(@, courseCode),
                                           !.parsed = @ \o parsedDeadlines ]

\* The body of the loop over course codes, for the one enabled GitHub MCP
\* server of the user.  fetched is what findCourseRepository and
\* fetchRepositoryReadme give for the course: kind "throw" (a tool call
\* throws), "norepo" (no repository selected), "noreadme" (repository found,
\* README missing) or "readme" with its lines.
ImportCourse(run, courseCode, fetched, now) ==
  LET noMatch == [ course |-> courseCode, message |-> "no matching GitHub repository/README found" ]
  IN  CASE fetched.kind = "throw" ->
             [ run EXCEPT !.errors = @ \o << [ course |-> courseCode, message |-> "thrown" ], noMatch >> ]
        [] fetched.kind = "norepo" ->
             [ run EXCEPT !.errors = Append(@, noMatch) ]
        [] fetched.kind = "noreadme" ->
             [ run EXCEPT !.errors = Append(@, noMatch),
                          !.repositoriesScanned = Append(@, courseCode) ]
        [] fetched.kind = "readme" ->
             ImportReadme(run, courseCode, ReadmeDeadlinesOf[fetched.lines, courseCode, now])

RECURSIVE ImportCoursesUntilThrow(_, _, _, _)
\* a loop over the course codes that a throwing tool call ends
ImportCoursesUntilThrow(run, courseCodes, fetch, now) ==
  IF courseCodes = << >> THEN run
  ELSE IF fetch[Head(courseCodes)].kind = "throw"
  THEN ImportCourse(run, Head(courseCodes), fetch[Head(courseCodes)], now)
  ELSE ImportCoursesUntilThrow(ImportCourse(run, Head(courseCodes), fetch[Head(courseCodes)], now),
                               Tail(courseCodes), fetch, now)

RECURSIVE ImportCourses(_, _, _, _)
\* for (const courseCode of courseCodes) { ... }
ImportCourses(run, courseCodes, fetch, now) ==
  IF courseCodes = << >> THEN run
  ELSE ImportCourses(ImportCourse(run, Head(courseCodes), fetch[Head(courseCodes)], now),
                     Tail(courseCodes), fetch, now)

\* the result object, with the store as the run left it
ImportResult(final, attempted, courseCodes) ==
  [ store               |-> final.store,
    attempted           |-> attempted,
    imported            |-> final.imported,
    updated             |-> final.updated,
    skipped             |-> final.skipped,
    errors              |-> final.errors,
    courseCodes         |-> courseCodes,
    repositoriesScanned |-> final.repositoriesScanned,
    parsed              |-> final.parsed,
    outcomes            |-> final.outcomes,
    existing            |-> final.existing,
    conflicts           |-> final.conflicts ]

\* autoImportTpGithubDeadlines from the early returns on
ImportAll(start, courseCodes, hasServer, fetch, now) ==
  ImportResult(IF Len(courseCodes) # 0 /\ hasServer
               THEN ImportCourses(start, courseCodes, fetch, now) ELSE start,
               Len(courseCodes) # 0 /\ hasServer, courseCodes)

\* autoImportTpGithubDeadlines when getDeadlines returned existingDeadlines and
\* the store is st by the time of the first write
ImportFrom(st, existingDeadlines, tpEvents, hasServer, fetch, now) ==
  ImportAll([ store               |-> st,
              existing            |-> existingDeadlines,
              imported            |-> 0,
              updated             |-> 0,
              skipped             |-> 0,
              errors              |-> << >>,
              repositoriesScanned |-> << >>,
              parsed              |-> << >>,
              outcomes            |-> << >>,
              conflicts           |-> << >> ],
            extractTPCourseCodes(tpEvents), hasServer, fetch, now)

\* autoImportTpGithubDeadlines(store, userId, tpEvents, {now, executeToolCall})
\* on store st: the store after the call and the result object (parsed, the
\* README candidates handed to upsertImportedDeadline, is kept beside it).
\* hasServer tells whether the user has an enabled GitHub MCP server.
autoImportTpGithubDeadlines(st, tpEvents, hasServer, fetch, now) ==
  ImportFrom(st, getDeadlines(st), tpEvents, hasServer, fetch, now)

\* ------------------------------------------------------------------------
\* Inputs of the duplicate detector
\* ------------------------------------------------------------------------

\* makeDeadline({ id, course, task, dueDate, priority, completed })
Member(id, course, task, dueDate, priority, completed) ==
  [ id |-> id, course |-> course, task |-> task, dueDate |-> dueDate,
    priority |-> priority, completed |-> completed ]

\* the deadline with a canvasAssignmentId
WithCanvas(deadline, canvasAssignmentId) ==
  [ f \in DOMAIN deadline \cup { "canvasAssignmentId" } |->
      IF f = "canvasAssignmentId" THEN canvasAssignmentId ELSE deadline[f] ]

\* Deadlines of one task in several courses (two spellings of DAT560, another
\* course code, a course with no code, two courses whose key is empty), of
\* one course and task at several distances in time (90 minutes, two days
\* and an hour, no date), and of one course and date with several task
\* texts; entered by hand, synced from Canvas (a canvasAssignmentId) or
\* imported from GitHub (an id that starts with github-)
DedupPool ==
  << Member(<< "m", "-", "2" >>, DAT560, TaskExam, toISOString(T1), "high", FALSE),
     WithCanvas(Member(<< "c", "-", "1" >>, << "d", "a", "t", "5", "6", "0", "-", "1" >>, TaskExam,
                       toISOString(T1 + 90), "critical", FALSE), 7),
     Member(<< "m", "-", "3" >>, << "D", "A", "T", "5", "2", "0" >>, TaskExam, toISOString(T1), "high", FALSE),
     Member(<< "m", "-", "4" >>, << >>, TaskExam, toISOString(T1), "high", FALSE),
     Member(<< "m", "-", "5" >>, << "-" >>, TaskExam, toISOString(T1), "low", FALSE),
     Member(<< "m", "-", "6" >>, << "M", "a", "t", "h" >>, TaskExam, toISOString(T1), "high", FALSE),
     Member(<< "g", "i", "t", "h", "u", "b", "-", "1" >>, DAT560, TaskExam,
            toISOString(T1 + 2 * MinutesPerDay + 60), "high", TRUE),
     Member(<< "m", "-", "8" >>, DAT560, TaskExam, InvalidDate, "high", FALSE),
     Member(<< "m", "-", "9" >>, DAT560,
            << "F", "i", "n", "a", "l", " ", "e", "x", "a", "m", " ", "p", "r", "e", "p" >>,
            toISOString(T1), "low", FALSE),
     Member(<< "m", "-", "1" >>, DAT560, << "E", "x", "a", "m", " ", "p", "a", "r", "t", " ", "1" >>,
            toISOString(T1), "medium", FALSE) >>

\* Deadlines of one task in two courses, for the choice of the canonical
\* record and the order of the suggestions: in DAT600 two records that differ
\* in their id only and one due a day later; in DAT520 a Canvas record, a
\* GitHub record due 90 minutes later and a manual record due two days and an
\* hour later, which only the GitHub record is close enough to
RankPool ==
  << Member(<< "d", "-", "3" >>, << "D", "A", "T", "6", "0", "0" >>, TaskExam, toISOString(T1), "medium", FALSE),
     Member(<< "d", "-", "2" >>, << "D", "A", "T", "6", "0", "0" >>, TaskExam, toISOString(T1), "medium", FALSE),
     Member(<< "d", "-", "1" >>, << "D", "A", "T", "6", "0", "0" >>, TaskExam,
            toISOString(T1 + MinutesPerDay), "medium", FALSE),
     WithCanvas(Member(<< "c", "-", "4", "2" >>, << "D", "A", "T", "5", "2", "0", "-", "1" >>, TaskExam,
                       toISOString(T1), "high", FALSE), 42),
     Member(<< "g", "i", "t", "h", "u", "b", "-", "2" >>, << "D", "A", "T", "5", "2", "0" >>, TaskExam,
            toISOString(T1 + 90), "critical", FALSE),
     Member(<< "m", "-", "7" >>, << "D", "A", "T", "5", "2", "0" >>, TaskExam,
            toISOString(T1 + 2 * MinutesPerDay + 60), "low", TRUE) >>

\* Five records of one task in one course that are pairwise duplicates and
\* differ, from the first, in one respect each: the id, the due date (a day
\* later), the priority (lower, with a smaller id) and the source (Canvas,
\* with a higher priority)
TiePool ==
  << Member(<< "t", "-", "2" >>, << "D", "A", "T", "6", "0", "0" >>, TaskExam, toISOString(T1), "high", FALSE),
     Member(<< "t", "-", "3" >>, << "D", "A", "T", "6", "0", "0" >>, TaskExam, toISOString(T1), "high", FALSE),
     Member(<< "t", "-", "1" >>, << "D", "A", "T", "6", "0", "0" >>, TaskExam,
            toISOString(T1 + MinutesPerDay), "high", FALSE),
     Member(<< "t", "-", "0" >>, << "D", "A", "T", "6", "0", "0" >>, TaskExam, toISOString(T1), "medium", FALSE),
     WithCanvas(Member(<< "c", "-", "9" >>, << "D", "A", "T", "6", "0", "0" >>, TaskExam,
                       toISOString(T1), "critical", FALSE), 9) >>

\* the lists of at most max distinct elements of pool, in the order of the pool
SubLists(pool, max) ==
  { SelectSeq(pool, LAMBDA d : d \in chosen) :
      chosen \in { s \in SUBSET Range(pool) : Cardinality(s) <= max } }

\* the lists of at most max distinct elements of pool, in every order
Arrangements(pool, max) ==
  { [ k \in 1..Len(order) |-> pool[order[k]] ] :
      order \in { o \in Lists([ k \in 1..Len(pool) |-> k ], max) :
                    \A a \in 1..Len(o), b \in 1..Len(o) : a # b => o[a] # o[b] } }

\* the fields of a deadline that evaluateDuplicateSignal reads
Compared(deadline) ==
  [ course |-> deadline.course, task |-> deadline.task, dueDate |-> deadline.dueDate ]

DedupCourseKey ==
  Tabulate([ c \in { d.course : d \in Range(DedupPool) \cup Range(RankPool) \cup Range(TiePool) } |->
               dedup_normalizeCourseKey(c) ])

DuplicateSignals ==
  Tabulate([ l \in { Compared(d) : d \in Range(DedupPool) \cup Range(RankPool) \cup Range(TiePool) },
             r \in { Compared(d) : d \in Range(DedupPool) \cup Range(RankPool) \cup Range(TiePool) } |->
               evaluateDuplicateSignal(l, r) ])

\* evaluateDuplicateSignal(left, right), looked up
SignalBetween(left, right) == DuplicateSignals[Compared(left), Compared(right)]

\* ------------------------------------------------------------------------
\* The grouping of generateDeadlineMergeSuggestions
\* ------------------------------------------------------------------------

\* the pair the double loop of generateDeadlineMergeSuggestions visits after pair
NextPair(pair, n) ==
  IF pair[2] < n THEN << pair[1], pair[2] + 1 >> ELSE << pair[1] + 1, pair[1] + 2 >>

RECURSIVE UnionPairs(_, _, _)
\* the double loop over i < j, from pair on: union(parent, i, j) when the pair
\* is a duplicate; edges keeps the pairs union was called for
UnionPairs(members, pair, acc) ==
  IF pair[2] > Len(members) THEN acc
  ELSE UnionPairs(members, NextPair(pair, Len(members)),
                  IF SignalBetween(members[pair[1]], members[pair[2]]).isDuplicate
                  THEN [ parent |-> union(acc.parent, pair[1], pair[2]),
                         edges |-> acc.edges \cup { pair } ]
                  ELSE acc)

\* groups after existing.push(members[index]); groups.set(root, existing)
PushMember(groups, root, index) ==
  IF \E k \in 1..Len(groups) : groups[k].root = root
  THEN [ k \in 1..Len(groups) |->
           IF groups[k].root = root
           THEN [ groups[k] EXCEPT !.members = Append(@, index) ] ELSE groups[k] ]
  ELSE Append(groups, [ root |-> root, members |-> << index >> ])

RECURSIVE CollectGroups(_, _, _)
\* the Map from root to members, in insertion order, from index on
CollectGroups(parent, index, groups) ==
  IF index > Len(parent) THEN groups
  ELSE CollectGroups(find(parent, index).parent, index + 1,
                     PushMember(groups, find(parent, index).root, index))

\* the groups of the parent array, those of one member included
GroupingAll(joined) ==
  [ edges |-> joined.edges, parent |-> joined.parent,
    groups |-> CollectGroups(joined.parent, 1, << >>) ]

\* the groups of two members or more that the parent array describes
Grouping(joined) ==
  [ edges |-> joined.edges, parent |-> joined.parent,
    groups |-> SelectSeq(CollectGroups(joined.parent, 1, << >>),
                         LAMBDA group : Len(group.members) >= 2) ]

\* the grouping stage of generateDeadlineMergeSuggestions: the pairs joined,
\* the parent array and the groups of two members or more, as lists of
\* positions in the input
DuplicateGroups(deadlines) ==
  IF Len(deadlines) < 2 THEN [ edges |-> { }, parent |-> << >>, groups |-> << >> ]
  ELSE Grouping(UnionPairs(deadlines, << 1, 2 >>,
                           [ parent |-> [ index \in 1..Len(deadlines) |-> index ],
                             edges |-> { } ]))

\* ------------------------------------------------------------------------
\* Canonical selection, merged preview and suggestions
\* ------------------------------------------------------------------------

PRIORITY_RANK ==
  [ p \in { "low", "medium", "high", "critical" } |->
      CASE p = "low" -> 1 [] p = "medium" -> 2 [] p = "high" -> 3 [] p = "critical" -> 4 ]

SOURCE_RANK ==
  [ s \in { "github", "canvas", "manual" } |->
      CASE s = "github" -> 1 [] s = "canvas" -> 2 [] s = "manual" -> 3 ]

\* an absent canvasAssignmentId is an absent field of the record
inferDeadlineSource(deadline) ==
  IF "canvasAssignmentId" \in DOMAIN deadline THEN "canvas"
  ELSE IF Len(deadline.id) >= 7
          /\ SubSeq(deadline.id, 1, 7) = << "g", "i", "t", "h", "u", "b", "-" >>
       THEN "github"
  ELSE "manual"

\* left.localeCompare(right) for ids made of lower-case letters, digits and
\* hyphens, which the collation orders as their code units are ordered
localeCompare(left, right) ==
  IF left = right THEN 0 ELSE IF StrLess(left, right) THEN -1 ELSE 1

\* a comparator that leaves every order as it is
CompareNothing(left, right) == 0

\* a comparator that looks at the ids only
CompareIds(left, right) == localeCompare(left.id, right.id)

compareCanonicalCandidates(left, right) ==
  IF left.completed # right.completed THEN (IF left.completed THEN -1 ELSE 1)
  ELSE IF SOURCE_RANK[right.source] - SOURCE_RANK[left.source] # 0
       THEN SOURCE_RANK[right.source] - SOURCE_RANK[left.source]
  ELSE IF PRIORITY_RANK[right.priority] - PRIORITY_RANK[left.priority] # 0
       THEN PRIORITY_RANK[right.priority] - PRIORITY_RANK[left.priority]
  ELSE IF DateParse(left.dueDate) # NaN /\ DateParse(right.dueDate) # NaN
          /\ DateParse(left.dueDate) - DateParse(right.dueDate) # 0
       THEN DateParse(left.dueDate) - DateParse(right.dueDate)
  ELSE localeCompare(left.id, right.id)

\* [...items].sort(compare) for a comparator that is a consistent order;
\* compare[i, j] is the comparator's answer for items[i] and items[j], and
\* the sort is stable
SortBy(items, compare) ==
  LET before(i) == { j \in 1..Len(items) :
                       compare[j, i] < 0 \/ (compare[j, i] = 0 /\ j < i) }
  IN  [ k \in 1..Len(items) |->
          items[CHOOSE i \in 1..Len(items) : Cardinality(before(i)) = k - 1] ]

highestPriority(deadlines) ==
  LET priorities == { "low" } \cup { deadlines[i].priority : i \in 1..Len(deadlines) }
  IN  CHOOSE current \in priorities :
        \A other \in priorities : PRIORITY_RANK[other] <= PRIORITY_RANK[current]

\* the due date of the canonical record, whatever the members are
FallbackDueDate(deadlines, fallback) == fallback

earliestDueDate(deadlines, fallback) ==
  LET Earliest(valid) ==
        IF Len(valid) > 0
        THEN SortBy(valid, [ i \in 1..Len(valid), j \in 1..Len(valid) |->
                               DateParse(valid[i]) - DateParse(valid[j]) ])[1]
        ELSE fallback
  IN  Earliest(SelectSeq([ i \in 1..Len(deadlines) |-> deadlines[i].dueDate ],
                         LAMBDA dueDate : DateParse(dueDate) # NaN))

\* the sentence of buildReason, as the values it is built from: days is
\* Math.ceil(maxDueDistanceDays)
buildReason(courseKey, members, maxDueDistanceDays) ==
  [ members |-> Len(members), courseKey |-> courseKey,
    sameDueDay |-> 4 * maxDueDistanceDays.num < maxDueDistanceDays.den,
    days |-> (maxDueDistanceDays.num + maxDueDistanceDays.den - 1) \div maxDueDistanceDays.den ]

RECURSIVE SumScores(_)
\* pairSignals.reduce((sum, signal) => sum + signal.score, 0)
SumScores(pairSignals) ==
  IF pairSignals = << >> THEN Zero
  ELSE LET rest == SumScores(Tail(pairSignals))
           score == Head(pairSignals).score
       IN  Ratio(score.num * rest.den + rest.num * score.den, score.den * rest.den)

RECURSIVE MaxDistance(_)
\* the largest dueDistanceDays of pairSignals, 0 when there is none
MaxDistance(pairSignals) ==
  IF pairSignals = << >> THEN Zero
  ELSE LET rest == MaxDistance(Tail(pairSignals))
           distance == Head(pairSignals).dueDistanceDays
       IN  IF distance.num * rest.den > rest.num * distance.den THEN distance ELSE rest

\* the suggestion built for one group of two members or more; toFixed(3)
\* rounds the exact average to thousandths, half up
Suggestion(groupMembers) ==
  LET Average(sum, count) == Ratio(sum.num, sum.den * (IF count > 1 THEN count ELSE 1))
      Built(sorted, canonical, duplicates, pairSignals, averageScore) ==
        [ canonicalId |-> canonical.id,
          canonicalSource |-> canonical.source,
          duplicateIds |-> [ k \in 1..Len(duplicates) |-> duplicates[k].id ],
          confidence |-> IF AtLeast(averageScore, Ratio(8, 10)) THEN "high" ELSE "medium",
          score |-> Ratio((2000 * averageScore.num + averageScore.den) \div (2 * averageScore.den),
                          1000),
          reason |-> buildReason(DedupCourseKey[canonical.course], sorted, MaxDistance(pairSignals)),
          mergedPreview |->
            [ course |-> canonical.course,
              task |-> canonical.task,
              dueDate |-> earliestDueDate(sorted, canonical.dueDate),
              priority |-> highestPriority(sorted),
              completed |-> \E k \in 1..Len(sorted) : sorted[k].completed ],
          members |-> sorted ]
      Scored(sorted, pairSignals) ==
        Built(sorted, sorted[1], Tail(sorted), pairSignals,
              Average(SumScores(pairSignals), Len(pairSignals)))
      WithSignals(sorted) ==
        Scored(sorted, [ k \in 1..(Len(sorted) - 1) |-> SignalBetween(sorted[1], sorted[k + 1]) ])
  IN  WithSignals(SortBy(groupMembers,
                       [ i \in 1..Len(groupMembers), j \in 1..Len(groupMembers) |->
                           compareCanonicalCandidates(groupMembers[i], groupMembers[j]) ]))

\* a comparator that looks at the scores only
CompareScores(left, right) ==
  right.score.num * left.score.den - left.score.num * right.score.den

\* the comparator of the final sort of the suggestions; for the scores, the
\* difference of the two fractions over their common denominator
CompareSuggestions(left, right) ==
  IF left.confidence # right.confidence THEN (IF left.confidence = "high" THEN -1 ELSE 1)
  ELSE IF Len(right.duplicateIds) # Len(left.duplicateIds)
       THEN Len(right.duplicateIds) - Len(left.duplicateIds)
  ELSE right.score.num * left.score.den - left.score.num * right.score.den

\* the suggestions of the groups, in the order the groups were found
GroupSuggestions(members, groups) ==
  [ g \in 1..Len(groups) |->
      Suggestion([ k \in 1..Len(groups[g].members) |-> members[groups[g].members[k]] ]) ]

\* deadlines.map((deadline) => ({ ...deadline, source: inferDeadlineSource(deadline) }))
WithSource(deadlines) ==
  [ i \in 1..Len(deadlines) |->
      [ f \in DOMAIN deadlines[i] \cup { "source" } |->
          IF f = "source" THEN inferDeadlineSource(deadlines[i]) ELSE deadlines[i][f] ] ]

\* the array with the source written into its own records
SourcedInPlace(deadlines) == WithSource(deadlines)

\* the array handed to generateDeadlineMergeSuggestions, after the call: the
\* members are spread copies of its records, the sorts work on copies, and
\* nothing assigns to an element or a field of it
DeadlinesAfter(deadlines) == deadlines

generateDeadlineMergeSuggestions(deadlines) ==
  LET Sorted(suggestions) ==
        SortBy(suggestions, [ i \in 1..Len(suggestions), j \in 1..Len(suggestions) |->
                                CompareSuggestions(suggestions[i], suggestions[j]) ])
  IN  Sorted(GroupSuggestions(WithSource(deadlines), DuplicateGroups(deadlines).groups))

buildDeadlineDedupResult(deadlines, generatedAt) ==
  LET Result(suggestions) ==
        [ generatedAt |-> toISOString(generatedAt),
          totalDeadlines |-> Len(deadlines),
          duplicateGroups |-> Len(suggestions),
          suggestions |-> suggestions ]
  IN  Result(generateDeadlineMergeSuggestions(deadlines))

\* ------------------------------------------------------------------------
\* The bridge model: a store and the two bridges
\* ------------------------------------------------------------------------

VARIABLES
  store,    \* the user's deadlines, as the store lists them
  creator,  \* creator[i]: who created store[i] ("user", "exam", "github")
  pre,      \* the store as it was when the last run started
  last,     \* the last bridge run: its input, its result object, and what the
            \* run met on the way (conflicts, the snapshot at its end, the id
            \* of a deadline deleted under it)
  dedup,    \* the last answer of the duplicate detector
  inFlightTpGithubJobs,  \* the keys of the sub-agent jobs that were scheduled
                         \* and have not ended
  jobs,     \* the sub-agent jobs from schedule to the end of their run
  called,   \* the last call of the scheduler or end of a run, and its result
  canvas,   \* the Canvas sync service: its interval, its calls of sync() and
            \* the data it stored
  edited    \* the due dates the user has set on automation-managed deadlines
            \* and that differ from the source's: records [ id, dueDate ]

vars == << store, creator, pre, last, dedup, inFlightTpGithubJobs, jobs, called, canvas, edited >>

\* the variables of the background services
services == << inFlightTpGithubJobs, jobs, called, canvas >>

\* the result object of a run that has not done anything yet
NoResult ==
  [ attempted |-> FALSE, imported |-> 0, updated |-> 0, skipped |-> 0,
    errors |-> << >>, courseCodes |-> << >>, executedTools |-> << >>, finalText |-> << >> ]

\* no call to the scheduler yet
NoCall ==
  [ op |-> "none", key |-> "", ret |-> FALSE, outcome |-> "none",
    result |-> NoResult, requests |-> 0, scheduled |-> 0 ]

\* a service that was constructed: no interval, no sync called, nothing stored
NoCanvas == [ syncInterval |-> FALSE, syncs |-> << >>, canvasData |-> 0 ]

\* no job has been scheduled and the Canvas service is idle
InitServices ==
  /\ inFlightTpGithubJobs = { }
  /\ jobs = << >>
  /\ called = NoCall
  /\ canvas = NoCanvas

NoFetch == [ c \in CourseCodes |-> Fetched("norepo", << >>) ]

NoRun ==
  [ bridge |-> "none", rerun |-> FALSE, events |-> << >>, hasServer |-> FALSE,
    fetch |-> NoFetch, at |-> 0, candidates |-> << >>, outcomes |-> << >>,
    created |-> 0, updated |-> 0, skipped |-> 0, errors |-> << >>,
    conflicts |-> << >>, snapshot |-> << >>, gone |-> 0, courseCodes |-> << >>,
    createdDeadlines |-> << >> ]

\* the user moved the due date of an automation-managed deadline
Diverged(d) == Truthy(d.sourceDueDate) /\ d.dueDate # d.sourceDueDate

WithIds(seeds) ==
  [ i \in 1..Len(seeds) |->
      [ id            |-> i,
        course        |-> seeds[i].d.course,
        task          |-> seeds[i].d.task,
        dueDate       |-> seeds[i].d.dueDate,
        sourceDueDate |-> seeds[i].d.sourceDueDate,
        priority      |-> seeds[i].d.priority,
        completed     |-> seeds[i].d.completed ] ]

\* the detector has not been asked
NoDedup ==
  [ op |-> "none", pair |-> << >>,
    signal |-> [ isDuplicate |-> FALSE, score |-> Zero, taskScore |-> Zero,
                 dueDistanceDays |-> PositiveInfinity, courseKey |-> << >> ],
    input |-> << >>, edges |-> { }, parent |-> << >>, groups |-> << >>,
    result |-> buildDeadlineDedupResult(<< >>, 0) ]

Init ==
  \E seeds \in SeedLists :
    /\ store = WithIds(seeds)
    /\ creator = [ i \in 1..Len(seeds) |-> seeds[i].by ]
    /\ pre = << >>
    /\ last = NoRun
    /\ dedup = NoDedup
    /\ InitServices
    /\ edited = { [ id |-> d.id, dueDate |-> d.dueDate ] :
                  d \in { e \in Range(WithIds(seeds)) : Diverged(e) } }

\* the variables after a bridge run that left store r.store and reported run
Commit(r, bridge, run) ==
  /\ store' = r.store
  /\ creator' = creator \o [ i \in 1..(Len(r.store) - Len(store)) |-> bridge ]
  /\ pre' = store
  /\ last' = run
  /\ UNCHANGED << dedup, services, edited >>

\* what is kept of a run of the exam bridge
ExamReport(r, events, at, isRerun) ==
  [ bridge |-> "exam", rerun |-> isRerun, events |-> events,
    hasServer |-> FALSE, fetch |-> NoFetch, at |-> at,
    candidates |-> r.candidates, outcomes |-> r.outcomes, created |-> r.created,
    updated |-> r.updated, skipped |-> r.skipped, errors |-> << >>,
    conflicts |-> r.conflicts, snapshot |-> r.existing, gone |-> 0, courseCodes |-> << >>,
    createdDeadlines |-> r.createdDeadlines ]

\* what is kept of a run of the GitHub bridge
GithubReport(r, events, hasServer, fetch, at, isRerun) ==
  [ bridge |-> "github", rerun |-> isRerun, events |-> events,
    hasServer |-> hasServer, fetch |-> fetch, at |-> at,
    candidates |-> r.parsed, outcomes |-> r.outcomes, created |-> r.imported,
    updated |-> r.updated, skipped |-> r.skipped, errors |-> r.errors,
    conflicts |-> r.conflicts, snapshot |-> r.existing, gone |-> 0,
    courseCodes |-> r.courseCodes, createdDeadlines |-> << >> ]

ExamCommit(r, events, at, isRerun) == Commit(r, "exam", ExamReport(r, events, at, isRerun))

GithubCommit(r, events, hasServer, fetch, at, isRerun) ==
  Commit(r, "github", GithubReport(r, events, hasServer, fetch, at, isRerun))

\* the effect of a run of the exam bridge on the model's variables
ExamEffect(events, at, isRerun) ==
  ExamCommit(syncExamDeadlines(store, events, at), events, at, isRerun)

\* the effect of a run of the GitHub bridge on the model's variables
GithubEffect(events, hasServer, fetch, at, isRerun) ==
  GithubCommit(autoImportTpGithubDeadlines(store, events, hasServer, fetch, at),
               events, hasServer, fetch, at, isRerun)

\* bridge.syncExamDeadlines(events, now), the first bridge run of a behaviour
ExamRun(events, at) ==
  /\ last.bridge = "none"
  /\ ExamEffect(events, at, FALSE)

\* autoImportTpGithubDeadlines(store, userId, tpEvents, { now, executeToolCall }),
\* the first bridge run of a behaviour
GithubRun(events, hasServer, fetch, at) ==
  /\ last.bridge = "none"
  /\ GithubEffect(events, hasServer, fetch, at, FALSE)

\* the scheduler runs the bridge of the last run again, with the same source
\* data, at the same instant and with no user edit in between
Rerun ==
  /\ last.bridge # "none"
  /\ ~last.rerun
  /\ \/ last.bridge = "exam" /\ ExamEffect(last.events, last.at, TRUE)
     \/ last.bridge = "github"
        /\ GithubEffect(last.events, last.hasServer, last.fetch, last.at, TRUE)

Next ==
  \/ \E events \in Calendars(MaxEvents), at \in NowSet : ExamRun(events, at)
  \/ \E input \in GithubInputs, at \in NowSet :
       GithubRun(input.events, input.hasServer, input.fetch, at)
  \/ Rerun

Spec == Init /\ [][Next]_vars

\* ------------------------------------------------------------------------
\* Bridge runs under which a deadline is deleted: the run has read its
\* snapshot with getDeadlines, and the deadline with id lost is gone from the
\* store by the time the run writes (lost = 0: nothing is deleted).  The
\* deadline deleted is the oldest of the store; the stores of Init hold their
\* deadlines in every order.
\* ------------------------------------------------------------------------

\* the store without the deadline with id lost; its place stays taken, under
\* no id, because the store gives no id twice
Deleted(st, lost) ==
  [ i \in 1..Len(st) |-> IF st[i].id = lost THEN [ st[i] EXCEPT !.id = 0 ] ELSE st[i] ]

\* the variables after a run that left r.store
CommitStale(r, bridge, run, lost) ==
  /\ store' = SelectSeq(r.store, LAMBDA d : d.id # 0)
  /\ creator' = [ i \in 1..Len(SelectSeq(r.store, LAMBDA d : d.id # 0)) |->
                   IF SelectSeq(r.store, LAMBDA d : d.id # 0)[i].id <= Len(store)
                   THEN creator[SelectSeq(r.store, LAMBDA d : d.id # 0)[i].id] ELSE bridge ]
  /\ pre' = store
  /\ last' = [ run EXCEPT !.gone = lost ]
  /\ UNCHANGED << dedup, services, edited >>

\* bridge.syncExamDeadlines(events, now) with a delete between its
\* getDeadlines and its first write
StaleExamRun(events, at, lost) ==
  /\ last.bridge = "none"
  /\ lost = 0 \/ HasDeadline(store, lost)
  /\ CommitStale(ExamSyncFrom(Deleted(store, lost), getDeadlines(store), events, at), "exam",
                 ExamReport(ExamSyncFrom(Deleted(store, lost), getDeadlines(store), events, at),
                            events, at, FALSE), lost)

\* autoImportTpGithubDeadlines(...) with a delete while it awaits its first
\* tool call
StaleGithubRun(events, hasServer, fetch, at, lost) ==
  /\ last.bridge = "none"
  /\ lost = 0 \/ HasDeadline(store, lost)
  /\ CommitStale(ImportFrom(Deleted(store, lost), getDeadlines(store), events, hasServer, fetch, at),
                 "github",
                 GithubReport(ImportFrom(Deleted(store, lost), getDeadlines(store), events,
                                         hasServer, fetch, at),
                              events, hasServer, fetch, at, FALSE), lost)

NextFaults ==
  \/ \E events \in Calendars(MaxEvents), at \in NowSet, lost \in 0..1 :
       StaleExamRun(events, at, lost)
  \/ \E input \in GithubInputs \cup TwoCourseInputs, at \in NowSet, lost \in 0..1 :
       StaleGithubRun(input.events, input.hasServer, input.fetch, at, lost)

SpecFaults == Init /\ [][NextFaults]_vars

\* ------------------------------------------------------------------------
\* The duplicate detector over a list of deadlines.  It reads the store and
\* writes nothing to it.
\* ------------------------------------------------------------------------

InitDedup ==
  \E deadlines \in SubLists(DedupPool, MaxDeadlines) \cup Arrangements(RankPool, MaxRanked)
                    \cup SubLists(TiePool, MaxRanked) :
    /\ store = deadlines
    /\ creator = [ i \in 1..Len(deadlines) |-> "user" ]
    /\ pre = << >>
    /\ last = NoRun
    /\ dedup = NoDedup
    /\ InitServices
    /\ edited = { }

\* evaluateDuplicateSignal(left, right) for two deadlines of the list
EvaluatePair(i, j) ==
  /\ dedup.op = "none"
  /\ i \in 1..Len(store)
  /\ j \in 1..Len(store)
  /\ i # j
  /\ dedup' = [ NoDedup EXCEPT !.op = "evaluate", !.pair = << i, j >>,
                                !.signal = SignalBetween(store[i], store[j]) ]
  /\ UNCHANGED << store, creator, pre, last, services, edited >>

\* the answer kept of buildDeadlineDedupResult(deadlines, generatedAt), with
\* what the grouping found on the way
Grouped(found, deadlines, generatedAt) ==
  [ NoDedup EXCEPT !.op = "group", !.input = deadlines, !.edges = found.edges,
                   !.parent = found.parent, !.groups = found.groups,
                   !.result = buildDeadlineDedupResult(deadlines, generatedAt) ]

\* buildDeadlineDedupResult(store.getDeadlines(userId), generatedAt), once
GroupDuplicates(generatedAt) ==
  /\ dedup.op = "none"
  /\ dedup' = Grouped(DuplicateGroups(getDeadlines(store)), getDeadlines(store), generatedAt)
  /\ store' = DeadlinesAfter(getDeadlines(store))
  /\ pre' = store
  /\ UNCHANGED << creator, last, services, edited >>

NextDedup ==
  \/ \E i \in 1..MaxRanked, j \in 1..MaxRanked : EvaluatePair(i, j)
  \/ \E generatedAt \in NowSet : GroupDuplicates(generatedAt)

SpecDedup == InitDedup /\ [][NextDedup]_vars

\* ------------------------------------------------------------------------
\* The README parser over the lines of one README, in every order.
\* ------------------------------------------------------------------------

\* lines of the README handed to the parser
MaxReadme == 3

\* The rows and announcements of a README that give Exam and Lab 1 several
\* dates: the lines of LinePool that parse, "| 9 | 25.02.2026 | **Exam** |"
\* and "| 9 | 01.03.2026 | **Lab 1** |"
ExtensionPool ==
  << LinePool[1], LinePool[6],
     [ table |-> TRUE, signal |-> FALSE, explicitTask |-> TaskExam,
       dates |-> << DottedDate(25, 2, 2026, NoGroup, NoGroup) >>, bolds |-> << TaskExam >> ],
     LinePool[2], LinePool[3], LinePool[4],
     [ table |-> TRUE, signal |-> FALSE, explicitTask |-> TaskLab1,
       dates |-> << DottedDate(1, 3, 2026, NoGroup, NoGroup) >>, bolds |-> << TaskLab1 >> ] >>

\* a README has been downloaded and is not parsed yet
InitReadme ==
  \E markdown \in Arrangements(ExtensionPool, MaxReadme), at \in NowSet :
    /\ store = << >>
    /\ creator = << >>
    /\ pre = << >>
    /\ last = [ NoRun EXCEPT !.fetch = [ c \in CourseCodes |-> Fetched("readme", markdown) ],
                             !.at = at ]
    /\ dedup = NoDedup
    /\ InitServices
    /\ edited = { }

\* parseGitHubCourseDeadlinesFromReadme(markdown, courseCode, now), once
ParseReadme(courseCode) ==
  /\ last.bridge = "none"
  /\ last' = [ last EXCEPT
                 !.bridge = "readme",
                 !.courseCodes = << courseCode >>,
                 !.candidates =
                   parseGitHubCourseDeadlinesFromReadme(last.fetch[courseCode].lines, courseCode, last.at) ]
  /\ UNCHANGED << store, creator, pre, dedup, services, edited >>

NextReadme == \E courseCode \in CourseCodes : ParseReadme(courseCode)

SpecReadme == InitReadme /\ [][NextReadme]_vars

\* ------------------------------------------------------------------------
\* The Canvas sync service (CanvasSyncService): sync() fetches courses,
\* assignments, modules and announcements from the Canvas client, one await
\* after the other, and stores them.
\* ------------------------------------------------------------------------

\* calls of sync() in one behaviour
MaxSyncs == 3

\* the awaits of sync(), in order
CanvasFetches == << "getCourses", "getAllAssignments", "getAllModules", "getAnnouncements" >>

\* The service after sync() was called and reached its first await.
\* syncs[k].during is the set of the earlier calls that had not returned.
SyncCalled(service) ==
  [ service EXCEPT !.syncs =
      Append(@, [ pc |-> 1, success |-> FALSE, error |-> "",
                  during |-> { k \in 1..Len(@) : @[k].pc # 0 } ]) ]

\* service.sync() or service.triggerSync()
sync ==
  /\ Len(canvas.syncs) < MaxSyncs
  /\ canvas' = SyncCalled(canvas)
  /\ UNCHANGED << store, creator, pre, last, dedup, inFlightTpGithubJobs, jobs, called, edited >>

\* service.start(intervalMs): nothing when the interval is set, else a sync
\* at once and the interval
start ==
  /\ Len(canvas.syncs) < MaxSyncs
  /\ canvas' = IF canvas.syncInterval THEN canvas
               ELSE [ SyncCalled(canvas) EXCEPT !.syncInterval = TRUE ]
  /\ UNCHANGED << store, creator, pre, last, dedup, inFlightTpGithubJobs, jobs, called, edited >>

\* service.stop()
stop ==
  /\ canvas' = [ canvas EXCEPT !.syncInterval = FALSE ]
  /\ UNCHANGED << store, creator, pre, last, dedup, inFlightTpGithubJobs, jobs, called, edited >>

\* the setInterval callback: void this.sync()
IntervalFires ==
  /\ canvas.syncInterval
  /\ sync

\* The await of sync k ends.  When the client call threw, sync returns
\* success false with the message of the error; after the last fetch it
\* stores the data and returns success true.  pc 0 stands for returned.
FetchEnds(k, threw) ==
  /\ k \in 1..Len(canvas.syncs)
  /\ canvas.syncs[k].pc # 0
  /\ canvas' =
       IF threw
       THEN [ canvas EXCEPT !.syncs[k].pc = 0, !.syncs[k].error = "Network error" ]
       ELSE IF canvas.syncs[k].pc < Len(CanvasFetches)
       THEN [ canvas EXCEPT !.syncs[k].pc = @ + 1 ]
       ELSE [ canvas EXCEPT !.syncs[k].pc = 0, !.syncs[k].success = TRUE, !.canvasData = k ]
  /\ UNCHANGED << store, creator, pre, last, dedup, inFlightTpGithubJobs, jobs, called, edited >>

NextCanvas ==
  \/ sync
  \/ start
  \/ stop
  \/ IntervalFires
  \/ \E k \in 1..MaxSyncs, threw \in BOOLEAN : FetchEnds(k, threw)

\* ------------------------------------------------------------------------
\* The GitHub deadline sub-agent (tp-github-deadlines.ts): background jobs,
\* one per user and GitHub server, that let a language model call tools.
\* The model client, the MCP tools and the local deadline tools are the
\* environment: what they answer is an input of the step that awaits them.
\* ------------------------------------------------------------------------

MAX_FUNCTION_ROUNDS == 10

MAX_IDENTICAL_TOOL_CALLS_PER_TURN == 2

MAX_LOCAL_TOOL_CALLS_PER_NAME == 12

LOCAL_DEADLINE_TOOL_NAMES == { "getDeadlines", "createDeadline", "queueDeadlineAction" }

\* `${job.userId}:${job.githubServerId}`
JobKey(job) == job.userId \o ":" \o job.githubServerId

\* githubContext.bindings.get(name): the MCP tool of the job's server that
\* is declared under name, or Null
BindingOf(name, githubServerId) ==
  IF name \in { "search_code", "get_file_contents" }
  THEN [ serverId |-> githubServerId, remoteToolName |-> name ]
  ELSE Null

maxCallsPerToolInTurn(toolName, binding) ==
  IF binding # Null /\ binding.remoteToolName = "search_code" THEN 2
  ELSE IF binding # Null /\ binding.remoteToolName = "search_repositories" THEN 4
  ELSE IF binding # Null /\ binding.remoteToolName = "get_file_contents" THEN 8
  ELSE IF binding # Null /\ binding.remoteToolName \in { "list_repositories", "list_repository" } THEN 4
  ELSE IF toolName \in LOCAL_DEADLINE_TOOL_NAMES THEN MAX_LOCAL_TOOL_CALLS_PER_NAME
  ELSE 6

\* Arguments are objects: sequences of << key, value >> in insertion order.
\* canonicalizeForToolSignature orders the keys.
canonicalizeForToolSignature(args) ==
  LET sortedKeys == SortCodes({ args[i][1] : i \in 1..Len(args) })
  IN  [ k \in 1..Len(sortedKeys) |->
          args[CHOOSE i \in 1..Len(args) : args[i][1] = sortedKeys[k]] ]

\* `${toolName}:${JSON.stringify(canonicalizeForToolSignature(args))}`, as
\* the pair of its two parts
toToolCallSignature(toolName, args) == << toolName, canonicalizeForToolSignature(args) >>

\* the key the per-tool limit and the rate-limit block are kept under
ToolLimitKey(name, binding) ==
  IF binding # Null THEN << "mcp", binding.serverId, binding.remoteToolName >> ELSE << name >>

\* map.get(key) ?? 0 for a Map kept as a function
CountOf(counts, key) == IF key \in DOMAIN counts THEN counts[key] ELSE 0

\* the Map after map.set(key, value)
WithCount(counts, key, value) ==
  [ k \in DOMAIN counts \cup { key } |-> IF k = key THEN value ELSE counts[k] ]

\* updateDeadlineCountersFromToolResponse for createDeadline; the payload is
\* given by its kind: "created", "exists" (success, created false), "error"
updateDeadlineCountersFromToolResponse(counters, toolName, payload) ==
  IF toolName \notin LOCAL_DEADLINE_TOOL_NAMES THEN counters
  ELSE IF toolName = "createDeadline" /\ payload = "created"
       THEN [ counters EXCEPT !.imported = @ + 1 ]
  ELSE IF toolName = "createDeadline" /\ payload \in { "exists", "error" }
       THEN [ counters EXCEPT !.skipped = @ + 1 ]
  ELSE counters

\* the deadline the model asks createDeadline for
AgentDeadline == Deadline(DAT560, TaskLab1, toISOString(T2), Undefined, "medium")

\* a job between schedule and the end of its run: pc is "timer" until the
\* setTimeout callback runs, "setup" until the tool loop starts, then "loop"
NewRun(job) ==
  [ job |-> job, pc |-> "timer", round |-> 0, requests |-> 0,
    toolCallSignatureCount |-> << >>, toolCallNameCount |-> << >>, blockedToolNames |-> { },
    counters |-> [ imported |-> 0, updated |-> 0, skipped |-> 0 ],
    finalText |-> << >>, result |-> NoResult, roundResponses |-> << >>, st |-> << >> ]

\* roundResponses.push({ name, response: { error } }) for a call that is not
\* executed
SkipCall(run, call, why) ==
  [ run EXCEPT !.roundResponses = Append(@, [ name |-> call.name, response |-> why ]) ]

\* a function call whose exception ends up in no error response and no
\* errors entry
ExecuteCallSilent(run, call, binding, toolLimitKey) ==
  IF call.answer \in { "throws", "throwsRateLimit" }
  THEN [ run EXCEPT
           !.roundResponses = Append(@, [ name |-> call.name, response |-> "error: thrown" ]) ]
  ELSE [ run EXCEPT
           !.roundResponses = Append(@, [ name |-> call.name, response |-> call.answer ]),
           !.result.executedTools = Append(@, call.name) ]

\* The try block of one function call.  call.answer is what the tool does
\* when it is executed: "ok", "rateLimited" (an MCP error result with a
\* rate-limit text), "created", "exists", "error" (payloads of
\* createDeadline), "throws", "throwsRateLimit" (an Error whose message names
\* a rate limit).
ExecuteCall(run, call, binding, toolLimitKey) ==
  IF call.answer \in { "throws", "throwsRateLimit" }
  THEN [ run EXCEPT
           !.blockedToolNames = IF call.answer = "throwsRateLimit" THEN @ \cup { toolLimitKey } ELSE @,
           !.roundResponses = Append(@, [ name |-> call.name, response |-> "error: thrown" ]),
           !.result.errors = Append(@, << call.name, call.answer >>) ]
  ELSE IF binding # Null
  THEN [ run EXCEPT
           !.blockedToolNames = IF call.answer = "rateLimited" THEN @ \cup { toolLimitKey } ELSE @,
           !.roundResponses = Append(@, [ name |-> call.name, response |-> call.answer ]),
           !.result.executedTools = Append(@, call.name) ]
  ELSE IF call.name \in LOCAL_DEADLINE_TOOL_NAMES
  THEN [ run EXCEPT
           !.st = IF call.name = "createDeadline" /\ call.answer = "created"
                  THEN Append(@, createDeadline(@, [ AgentDeadline EXCEPT !.completed = FALSE ]))
                  ELSE @,
           !.counters = updateDeadlineCountersFromToolResponse(@, call.name, call.answer),
           !.roundResponses = Append(@, [ name |-> call.name, response |-> call.answer ]),
           !.result.executedTools = Append(@, call.name) ]
  ELSE [ run EXCEPT
           !.roundResponses = Append(@, [ name |-> call.name, response |-> "error: unsupported" ]),
           !.result.executedTools = Append(@, call.name) ]

\* the body of `for (const call of functionCalls)`
ProcessCall(run, call) ==
  LET binding      == BindingOf(call.name, run.job.githubServerId)
      toolLimitKey == ToolLimitKey(call.name, binding)
      signature    == toToolCallSignature(call.name, call.args)
      counted      == [ run EXCEPT !.toolCallSignatureCount =
                                     WithCount(@, signature, CountOf(@, signature) + 1) ]
      named        == [ counted EXCEPT !.toolCallNameCount =
                                         WithCount(@, toolLimitKey, CountOf(@, toolLimitKey) + 1) ]
  IN  IF CountOf(run.toolCallSignatureCount, signature) >= MAX_IDENTICAL_TOOL_CALLS_PER_TURN
      THEN SkipCall(run, call, "error: identical")
      ELSE IF toolLimitKey \in run.blockedToolNames
      THEN SkipCall(counted, call, "error: rate limit")
      ELSE IF CountOf(run.toolCallNameCount, toolLimitKey) >= maxCallsPerToolInTurn(call.name, binding)
      THEN SkipCall(counted, call, "error: repeated")
      ELSE ExecuteCall(named, call, binding, toolLimitKey)

RECURSIVE ProcessCalls(_, _)
ProcessCalls(run, functionCalls) ==
  IF functionCalls = << >> THEN run
  ELSE ProcessCalls(ProcessCall(run, Head(functionCalls)), Tail(functionCalls))

\* the result a run returns after its loop
Returned(run) ==
  [ run.result EXCEPT !.attempted = TRUE,
                      !.imported = run.counters.imported,
                      !.updated = run.counters.updated,
                      !.skipped = run.counters.skipped,
                      !.finalText = run.finalText ]

\* the result the catch block of the run returns
Caught(run, message) ==
  [ run.result EXCEPT !.errors = Append(@, << "run", message >>), !.attempted = TRUE ]

\* jobs started by one behaviour
MaxJobs == 2

\* the jobs the schedulers ask for: two servers of one user, and a second user
JobPool ==
  { [ userId |-> "u1", githubServerId |-> "gh1" ],
    [ userId |-> "u1", githubServerId |-> "gh2" ],
    [ userId |-> "u2", githubServerId |-> "gh1" ] }

Call(name, args, answer) == [ name |-> name, args |-> args, answer |-> answer ]

\* { query: "DAT560", owner: "uis" } and the same object with its keys in the
\* other order, { query: "DAT520" }, and the arguments of createDeadline
QueryArgs == << << << "q", "u", "e", "r", "y" >>, DAT560 >>, << << "o", "w", "n", "e", "r" >>, "uis" >> >>

QueryArgsSwapped == << QueryArgs[2], QueryArgs[1] >>

OtherQueryArgs == << << << "q", "u", "e", "r", "y" >>, DAT520 >> >>

DeadlineArgs == << << << "t", "a", "s", "k" >>, TaskLab1 >>, << << "c", "o", "u", "r", "s", "e" >>, DAT560 >> >>

\* a response of the model: generateChatResponse throws, or gives a text
\* (hasText false: response.text is undefined) and function calls
Response(kind, hasText, text, functionCalls) ==
  [ kind |-> kind, hasText |-> hasText, text |-> text, functionCalls |-> functionCalls ]

\* the function calls a response of the model can carry, each with what its
\* tool does if it is executed
CallPool ==
  { Call("search_code", QueryArgs, "ok"),
    Call("search_code", QueryArgsSwapped, "throws"),
    Call("search_code", OtherQueryArgs, "throwsRateLimit"),
    Call("createDeadline", DeadlineArgs, "created"),
    Call("sendEmail", << >>, "ok") }

\* what the model can answer in the tool loop: a failure, a final text, one
\* function call, and a call that throws followed by one that does not
ResponsePool ==
  { Response("throws", FALSE, << >>, << >>),
    Response("answer", TRUE, << " ", "o", "k", " " >>, << >>),
    Response("answer", FALSE, << >>, << >>) }
    \cup { Response("answer", FALSE, << >>, << c >>) : c \in CallPool }
    \cup { Response("answer", TRUE, << >>,
                    << Call("search_code", QueryArgsSwapped, "throws"),
                       Call("createDeadline", DeadlineArgs, "created") >>) }

\* the responses of a model that answers with the same call, with a final
\* text, or not at all
QuietResponses ==
  { Response("throws", FALSE, << >>, << >>),
    Response("answer", TRUE, << "o", "k" >>, << >>),
    Response("answer", FALSE, << >>, << Call("get_file_contents", OtherQueryArgs, "ok") >>) }

\* what the start of a run finds: fetchTp throws or gives events, and
\* buildMcpToolContext throws, gives no tool of the server, or gives tools
SetupPool ==
  { [ fetch |-> f, events |-> e, tools |-> t ] :
      f \in { "throws", "events" }, e \in { << >>, << LectureEvent >> },
      t \in { "throws", "none", "github" } }

\* scheduleTpGithubDeadlineSubAgent without the test of the in-flight set
ScheduleUnguarded(job, max) ==
  /\ called.scheduled < max
  /\ inFlightTpGithubJobs' = inFlightTpGithubJobs \cup { JobKey(job) }
  /\ jobs' = Append(jobs, NewRun(job))
  /\ called' = [ NoCall EXCEPT !.op = "schedule", !.key = JobKey(job), !.ret = TRUE,
                               !.scheduled = called.scheduled + 1 ]
  /\ UNCHANGED << store, creator, pre, last, dedup, canvas, edited >>

\* scheduleTpGithubDeadlineSubAgent(job, deps); a behaviour starts at most
\* max jobs, and calls that start none are not counted
scheduleTpGithubDeadlineSubAgent(job, max) ==
  /\ called.scheduled < max \/ JobKey(job) \in inFlightTpGithubJobs
  /\ IF JobKey(job) \in inFlightTpGithubJobs
     THEN /\ called' = [ NoCall EXCEPT !.op = "schedule", !.key = JobKey(job), !.ret = FALSE,
                                       !.scheduled = called.scheduled ]
          /\ UNCHANGED << inFlightTpGithubJobs, jobs >>
     ELSE /\ inFlightTpGithubJobs' = inFlightTpGithubJobs \cup { JobKey(job) }
          /\ jobs' = Append(jobs, NewRun(job))
          /\ called' = [ NoCall EXCEPT !.op = "schedule", !.key = JobKey(job), !.ret = TRUE,
                                       !.scheduled = called.scheduled + 1 ]
  /\ UNCHANGED << store, creator, pre, last, dedup, canvas, edited >>

\* the end of a run without the .finally that deletes the key
SettledLocked(i, run, outcome, result) ==
  /\ jobs' = [ k \in 1..(Len(jobs) - 1) |-> IF k < i THEN jobs[k] ELSE jobs[k + 1] ]
  /\ inFlightTpGithubJobs' = inFlightTpGithubJobs
  /\ called' = [ NoCall EXCEPT !.op = "settled", !.key = JobKey(run.job), !.outcome = outcome,
                               !.result = result, !.requests = run.requests,
                               !.scheduled = called.scheduled ]

\* The promise of run i settles with result ("returned") or rejects: the
\* .catch logs, and .finally deletes the key.  No other callback runs between
\* the end of the run and .finally.
Settled(i, run, outcome, result) ==
  /\ jobs' = [ k \in 1..(Len(jobs) - 1) |-> IF k < i THEN jobs[k] ELSE jobs[k + 1] ]
  /\ inFlightTpGithubJobs' = inFlightTpGithubJobs \ { JobKey(run.job) }
  /\ called' = [ NoCall EXCEPT !.op = "settled", !.key = JobKey(run.job), !.outcome = outcome,
                               !.result = result, !.requests = run.requests,
                               !.scheduled = called.scheduled ]

\* The setTimeout callback of job i: runTpGithubDeadlineSubAgent starts, up
\* to its first await.  client is what getGeminiClient() does: it throws, or
\* gives a client that is configured or not.
TimerFires(i, client) ==
  /\ i \in 1..Len(jobs)
  /\ jobs[i].pc = "timer"
  /\ CASE client = "throws" -> Settled(i, jobs[i], "rejected", NoResult)
       [] client = "unconfigured" ->
            Settled(i, jobs[i], "returned",
                    [ NoResult EXCEPT !.errors = << << "run", "Gemini is not configured on this server." >> >> ])
       [] OTHER -> /\ jobs' = [ jobs EXCEPT ![i].pc = "setup" ]
                   /\ UNCHANGED << inFlightTpGithubJobs, called >>
  /\ UNCHANGED << store, creator, pre, last, dedup, canvas, edited >>

\* run i from the fetch of the TP schedule to the start of the tool loop
SetUp(i, found) ==
  /\ i \in 1..Len(jobs)
  /\ jobs[i].pc = "setup"
  /\ LET courseCodes == extractTPCourseCodes(found.events)
         coded       == [ jobs[i] EXCEPT !.result.courseCodes = courseCodes ]
         Failed(run, message) ==
           Settled(i, run, "returned", [ run.result EXCEPT !.errors = Append(@, << "run", message >>) ])
     IN  IF found.fetch = "throws" THEN Settled(i, jobs[i], "returned", Caught(jobs[i], "fetch failed"))
         ELSE IF courseCodes = << >>
         THEN Failed(coded, "No TP course codes found for GitHub deadline import.")
         ELSE IF found.tools = "throws" THEN Settled(i, coded, "returned", Caught(coded, "context failed"))
         ELSE IF found.tools = "none" THEN Failed(coded, "No GitHub MCP tools available for server.")
         ELSE /\ jobs' = [ jobs EXCEPT ![i] = [ coded EXCEPT !.pc = "loop" ] ]
              /\ UNCHANGED << inFlightTpGithubJobs, called >>
  /\ UNCHANGED << store, creator, pre, last, dedup, canvas, edited >>

\* One round of the tool loop of run i: the model is asked for a response,
\* the function calls of the response are executed, and the run ends when
\* the response has no call, when generateChatResponse throws, or after
\* round MAX_FUNCTION_ROUNDS.
Round(i, response) ==
  /\ i \in 1..Len(jobs)
  /\ jobs[i].pc = "loop"
  /\ LET asked     == [ jobs[i] EXCEPT !.requests = @ + 1 ]
         heard     == [ asked EXCEPT !.finalText = IF response.hasText THEN trim(response.text) ELSE @ ]
         processed == ProcessCalls([ heard EXCEPT !.result.attempted = TRUE,
                                                  !.roundResponses = << >>,
                                                  !.st = store ],
                                   response.functionCalls)
         next      == [ processed EXCEPT !.round = @ + 1, !.st = << >> ]
     IN  IF response.kind = "throws"
         THEN /\ Settled(i, asked, "returned", Caught(asked, "model failed"))
              /\ UNCHANGED << store, creator >>
         ELSE IF response.functionCalls = << >>
         THEN /\ Settled(i, heard, "returned", Returned(heard))
              /\ UNCHANGED << store, creator >>
         ELSE /\ store' = processed.st
              /\ creator' = creator \o [ k \in 1..(Len(processed.st) - Len(store)) |-> "agent" ]
              /\ IF next.round < MAX_FUNCTION_ROUNDS
                 THEN /\ jobs' = [ jobs EXCEPT ![i] = next ]
                      /\ UNCHANGED << inFlightTpGithubJobs, called >>
                 ELSE Settled(i, next, "returned", Returned(next))
  /\ UNCHANGED << pre, last, dedup, canvas, edited >>

\* an empty store and no job
InitJobs ==
  /\ store = << >>
  /\ creator = << >>
  /\ pre = << >>
  /\ last = NoRun
  /\ dedup = NoDedup
  /\ InitServices
  /\ edited = { }

\* jobs of several users and servers, with a model that repeats one call
NextJobs ==
  \/ \E job \in JobPool : scheduleTpGithubDeadlineSubAgent(job, MaxJobs)
  \/ \E i \in 1..MaxJobs, client \in { "throws", "unconfigured", "configured" } : TimerFires(i, client)
  \/ \E i \in 1..MaxJobs, found \in SetupPool : SetUp(i, found)
  \/ \E i \in 1..MaxJobs, response \in QuietResponses : Round(i, response)

SpecJobs == InitJobs /\ [][NextJobs]_vars

\* the jobs of two users for one GitHub server
FairPool == { job \in JobPool : job.githubServerId = "gh1" }

\* NextJobs for the jobs of FairPool
NextFair ==
  \/ \E job \in FairPool : scheduleTpGithubDeadlineSubAgent(job, MaxJobs)
  \/ \E i \in 1..MaxJobs, client \in { "throws", "unconfigured", "configured" } : TimerFires(i, client)
  \/ \E i \in 1..MaxJobs, found \in SetupPool : SetUp(i, found)
  \/ \E i \in 1..MaxJobs, response \in QuietResponses : Round(i, response)

\* the next step of the run of key: its timer callback, its set-up or a round
\* of its tool loop
StepOf(key) ==
  \E i \in 1..MaxJobs :
    /\ i <= Len(jobs)
    /\ JobKey(jobs[i].job) = key
    /\ \/ \E client \in { "throws", "unconfigured", "configured" } : TimerFires(i, client)
       \/ \E found \in SetupPool : SetUp(i, found)
       \/ \E response \in QuietResponses : Round(i, response)

\* The scheduler when the event loop runs every timer callback and every call
\* a run awaits (the TP fetch, the MCP context, the model, the tools) settles
SpecJobsFair ==
  /\ InitJobs
  /\ [][NextFair]_vars
  /\ \A key \in { JobKey(job) : job \in FairPool } : WF_vars(StepOf(key))

\* one job, with every response of ResponsePool in every round
NextAgent ==
  \/ scheduleTpGithubDeadlineSubAgent([ userId |-> "u1", githubServerId |-> "gh1" ], 1)
  \/ \E client \in { "throws", "unconfigured", "configured" } : TimerFires(1, client)
  \/ \E found \in SetupPool : SetUp(1, found)
  \/ \E response \in ResponsePool : Round(1, response)

SpecAgent == InitJobs /\ [][NextAgent]_vars

SpecCanvas == InitJobs /\ [][NextCanvas]_vars

\* ------------------------------------------------------------------------
\* Bridge runs that follow one another, with user edits in between.  The
\* store starts with one "DAT560 / Exam" deadline that one of the bridges
\* created, due 2026-03-18T23:59Z as its source said.
\* ------------------------------------------------------------------------

ManagedPool ==
  << [ by |-> "exam",   d |-> Deadline(DAT560, TaskExam, toISOString(T2), toISOString(T2), "medium") ],
     [ by |-> "github", d |-> Deadline(DAT560, TaskExam, toISOString(T2), toISOString(T2), "medium") ] >>

\* the due dates a user sets
UserDueDates == { toISOString(N0), toISOString(T1), toISOString(T2) }

\* the calendars of later runs: the exam on 22 Feb, and on 18 Mar
SourceCalendars == { << EventPool[2] >>, << EventPool[3] >> }

\* the READMEs of later runs: the exam on 22 Feb, and extended to 18 Mar
SourceReadmes == { << LinePool[1] >>, << LinePool[6] >> }

InitRuns ==
  \E seed \in Range(ManagedPool) :
    /\ store = WithIds(<< seed >>)
    /\ creator = << seed.by >>
    /\ pre = << >>
    /\ last = NoRun
    /\ dedup = NoDedup
    /\ InitServices
    /\ edited = { }

\* the user sets the due date of deadline id: store.updateDeadline(userId, id,
\* { dueDate }) leaves sourceDueDate as it is
UserEdits(id, dueDate) ==
  /\ HasDeadline(store, id)
  /\ updateDeadline(store, id, [ dueDate |-> dueDate ]) \notin Range(store)
  /\ store' = ReplaceById(store, updateDeadline(store, id, [ dueDate |-> dueDate ]))
  /\ edited' = { e \in edited : e.id # id } \cup
               IF Diverged(updateDeadline(store, id, [ dueDate |-> dueDate ]))
               THEN { [ id |-> id, dueDate |-> dueDate ] } ELSE { }
  /\ UNCHANGED << creator, pre, last, dedup, services >>

NextRuns ==
  \/ \E id \in 1..MaxSeed, dueDate \in UserDueDates : UserEdits(id, dueDate)
  \/ \E events \in SourceCalendars, at \in NowSet : ExamEffect(events, at, FALSE)
  \/ \E markdown \in SourceReadmes, at \in NowSet :
       GithubEffect(<< LectureEvent >>, TRUE, OnlyDAT560(Fetched("readme", markdown)), at, FALSE)

SpecRuns == InitRuns /\ [][NextRuns]_vars

\* ------------------------------------------------------------------------
\* Bridge runs over a store that holds manual deadlines of DAT560 under
\* another spelling of the course
\* ------------------------------------------------------------------------

InitCourses ==
  \E course \in Range(CourseSpellings), task \in { TaskExam, TaskLab1 } :
    /\ store = WithIds(<< [ by |-> "user",
                            d |-> Deadline(course, task, toISOString(T2), Undefined, "medium") ] >>)
    /\ creator = << "user" >>
    /\ pre = << >>
    /\ last = NoRun
    /\ dedup = NoDedup
    /\ InitServices
    /\ edited = { }

SpecCourses == InitCourses /\ [][Next]_vars

\* ------------------------------------------------------------------------
\* Properties of a bridge run.  After a run, pre is the store the run
\* started from, store the store it left and last its result object; the
\* store gives ids in insertion order, so store[i] and pre[i] are the same
\* deadline.
\* ------------------------------------------------------------------------

BridgeRan == last.bridge # "none"

\* a and b (deadlines or candidates) have the same normalized (course, task),
\* as the bridge of the last run normalizes them
SameKey(a, b) ==
  IF last.bridge = "exam"
  THEN ExamTextKey[a.course] = ExamTextKey[b.course] /\ ExamTextKey[a.task] = ExamTextKey[b.task]
  ELSE GithubCourseKey[a.course] = GithubCourseKey[b.course]
       /\ GithubTextKey[a.task] = GithubTextKey[b.task]

Stored == 1..Len(pre)

Created == (Len(pre) + 1)..Len(store)

Candidates == 1..Len(last.candidates)

\* candidate k is the one candidate of the run for deadline i, and deadline i
\* the one stored deadline, when the run started, for candidate k
OnlyMatch(i, k) ==
  /\ SameKey(pre[i], last.candidates[k])
  /\ \A j \in Stored : SameKey(pre[j], last.candidates[k]) => j = i
  /\ \A l \in Candidates : SameKey(pre[i], last.candidates[l]) => l = k

\* C1 (non-destructive update): after every bridge run, every deadline that
\* had sourceDueDate set and dueDate # sourceDueDate before the run has the
\* dueDate it had before the run.
C1_NonDestructiveUpdate ==
  BridgeRan =>
    \A i \in Stored : Diverged(pre[i]) => store[i].dueDate = pre[i].dueDate

\* C2 (feed tracking under divergence): after every bridge run, a stored
\* deadline that was diverged and whose one matching candidate carries a
\* source due date other than the stored sourceDueDate has that candidate's
\* source due date as its sourceDueDate.
C2_FeedTracking ==
  BridgeRan =>
    \A i \in Stored, k \in Candidates :
      /\ OnlyMatch(i, k)
      /\ Diverged(pre[i])
      /\ last.candidates[k].sourceDueDate # pre[i].sourceDueDate
      => store[i].sourceDueDate = last.candidates[k].sourceDueDate

C4_Idempotence ==
  last.rerun => last.created = 0 /\ last.updated = 0 /\ store = pre

\* C5 (undiverged update): after every bridge run, an automation-managed
\* deadline whose dueDate was its sourceDueDate and whose one matching
\* candidate carries another due date has that due date as dueDate and as
\* sourceDueDate, and the candidate was counted as an update.
C5_UndivergedUpdate ==
  BridgeRan =>
    \A i \in Stored, k \in Candidates :
      /\ OnlyMatch(i, k)
      /\ Truthy(pre[i].sourceDueDate)
      /\ pre[i].dueDate = pre[i].sourceDueDate
      /\ last.candidates[k].dueDate # pre[i].dueDate
      => /\ store[i].dueDate = last.candidates[k].dueDate
         /\ store[i].sourceDueDate = last.candidates[k].dueDate
         /\ last.outcomes[k] = "updated"

\* C6 (no duplicate creation within one run): no deadline created by a bridge
\* run has the normalized (course, task) of another deadline created by that
\* run, or of a deadline that run updated.
C6_NoDuplicateCreation ==
  BridgeRan =>
    \A j \in Created :
      /\ \A i \in Created : i < j => ~SameKey(store[i], store[j])
      /\ \A i \in Stored : store[i] # pre[i] => ~SameKey(store[i], store[j])

\* C7 (bridges never delete): after every bridge run, every deadline id that
\* was in the store before the run is still in the store, and the store has
\* grown by exactly the number the run reports as created (imported).
C7_NeverDelete ==
  BridgeRan =>
    /\ \A i \in Stored : \E j \in 1..Len(store) : store[j].id = pre[i].id
    /\ Len(store) = Len(pre) + last.created

\* a bridge run on a store that held deadlines created one more
C7_Witness ==
  /\ BridgeRan
  /\ Len(pre) > 0
  /\ last.created > 0
  /\ last.updated + last.skipped > 0

\* C8 (bridge ownership): after every bridge run, an automation-managed
\* deadline whose dueDate the run changed was created by the bridge that ran.
C8_BridgeOwnership ==
  BridgeRan =>
    \A i \in Stored :
      Truthy(pre[i].sourceDueDate) /\ store[i].dueDate # pre[i].dueDate
      => creator[i] = last.bridge

\* C9 (future-only filter): every candidate of a bridge run is due strictly
\* after the now of that run.
C9_FutureOnly ==
  BridgeRan =>
    \A k \in Candidates : DateParse(last.candidates[k].dueDate) > last.at

\* ------------------------------------------------------------------------
\* Properties of the duplicate detector.  dedup.pair holds the positions in
\* the store of the two deadlines the last evaluation compared, dedup.edges
\* the pairs of positions the last grouping joined with union.
\* ------------------------------------------------------------------------

\* the normalized course keys of a and b differ, or one of them is empty
KeysDifferOrEmpty(a, b) ==
  \/ DedupCourseKey[a.course] = << >>
  \/ DedupCourseKey[b.course] = << >>
  \/ DedupCourseKey[a.course] # DedupCourseKey[b.course]

\* C10 Course gate: for a pair of deadlines whose normalized course keys
\* differ, or one of whose keys is empty, the verdict is false and the score
\* is 0 whatever the task texts and due dates, and the grouping never joins
\* such a pair directly.
C10_CourseGate ==
  /\ dedup.op = "evaluate" /\ KeysDifferOrEmpty(store[dedup.pair[1]], store[dedup.pair[2]])
       => ~dedup.signal.isDuplicate /\ dedup.signal.score.num = 0
  /\ \A e \in dedup.edges : ~KeysDifferOrEmpty(dedup.input[e[1]], dedup.input[e[2]])

\* two deadlines with the same task text and the same due date in two
\* different courses have been compared
C10_Witness ==
  /\ dedup.op = "evaluate"
  /\ KeysDifferOrEmpty(store[dedup.pair[1]], store[dedup.pair[2]])
  /\ DedupCourseKey[store[dedup.pair[1]].course] # << >>
  /\ DedupCourseKey[store[dedup.pair[2]].course] # << >>
  /\ store[dedup.pair[1]].task = store[dedup.pair[2]].task
  /\ store[dedup.pair[1]].dueDate = store[dedup.pair[2]].dueDate

\* the due dates of a and b are more than two days apart, or one of them does
\* not parse
DatesApartOrInvalid(a, b) ==
  \/ DateParse(a.dueDate) = NaN
  \/ DateParse(b.dueDate) = NaN
  \/ DateParse(a.dueDate) - DateParse(b.dueDate) > 2 * MinutesPerDay
  \/ DateParse(b.dueDate) - DateParse(a.dueDate) > 2 * MinutesPerDay

\* C11 Date gate: for a pair of deadlines whose due dates are more than two
\* days apart, or one of whose due dates does not parse, the verdict is
\* false whatever the task similarity, identical task text in the same
\* course included.
C11_DateGate ==
  dedup.op = "evaluate" /\ DatesApartOrInvalid(store[dedup.pair[1]], store[dedup.pair[2]])
    => ~dedup.signal.isDuplicate

\* two deadlines of the same course with the same task text, due more than
\* two days apart, have been compared
C11_Witness ==
  /\ dedup.op = "evaluate"
  /\ ~KeysDifferOrEmpty(store[dedup.pair[1]], store[dedup.pair[2]])
  /\ store[dedup.pair[1]].task = store[dedup.pair[2]].task
  /\ DateParse(store[dedup.pair[1]].dueDate) # NaN
  /\ DateParse(store[dedup.pair[2]].dueDate) # NaN
  /\ DatesApartOrInvalid(store[dedup.pair[1]], store[dedup.pair[2]])

\* ------------------------------------------------------------------------
\* Properties of a detector run.  After GroupDuplicates, store is the list
\* the detector was given and dedup.result the object it returned.
\* ------------------------------------------------------------------------

DetectorRan == dedup.op = "group"

Suggestions == Range(dedup.result.suggestions)

\* the ids of the members of a suggestion
MemberIds(suggestion) == { suggestion.canonicalId } \cup Range(suggestion.duplicateIds)

\* the pairwise verdict for store[i] and store[j], in either direction
Verdict(i, j) ==
  \/ SignalBetween(store[i], store[j]).isDuplicate
  \/ SignalBetween(store[j], store[i]).isDuplicate

RECURSIVE Chained(_)
\* the places of the store a chain of pairwise verdicts reaches from reached
Chained(reached) ==
  IF \E i \in reached, j \in 1..Len(store) : j \notin reached /\ Verdict(i, j)
  THEN Chained(reached \cup { j \in 1..Len(store) : \E i \in reached : Verdict(i, j) })
  ELSE reached

\* C12 Transitive grouping: two deadlines of the input linked by a chain of
\* pairwise duplicate verdicts are members of one and the same suggestion,
\* whatever the direct verdict for the two is.
C12_TransitiveGrouping ==
  DetectorRan =>
    \A a \in 1..Len(store) : \A c \in Chained({ a }) :
      a # c => \E s \in Suggestions : { store[a].id, store[c].id } \subseteq MemberIds(s)

\* a run over a list where two deadlines are chained and the direct verdict
\* for them is false
C12_Witness ==
  /\ DetectorRan
  /\ \E a \in 1..Len(store) : \E c \in Chained({ a }) :
       /\ a # c
       /\ ~Verdict(a, c)
       /\ \E s \in Suggestions : { store[a].id, store[c].id } \subseteq MemberIds(s)

\* C13 Canonical tie-break rule 1: in a suggestion whose members include a
\* completed and a not-completed deadline, the canonical record is a
\* not-completed member.
C13_NotCompletedFirst ==
  DetectorRan =>
    \A s \in Suggestions :
      (\E k \in 1..Len(s.members) : ~s.members[k].completed)
        /\ (\E k \in 1..Len(s.members) : s.members[k].completed)
        => \E k \in 1..Len(s.members) :
             s.members[k].id = s.canonicalId /\ ~s.members[k].completed

\* left is ahead of right by rules 2 to 5: a higher source rank; the same
\* rank and a higher priority; the same priority and an earlier due date; the
\* same due date and a smaller id
AheadOf(left, right) ==
  \/ SOURCE_RANK[left.source] > SOURCE_RANK[right.source]
  \/ /\ SOURCE_RANK[left.source] = SOURCE_RANK[right.source]
     /\ \/ PRIORITY_RANK[left.priority] > PRIORITY_RANK[right.priority]
        \/ /\ PRIORITY_RANK[left.priority] = PRIORITY_RANK[right.priority]
           /\ \/ DateParse(left.dueDate) < DateParse(right.dueDate)
              \/ /\ DateParse(left.dueDate) = DateParse(right.dueDate)
                 /\ StrLess(left.id, right.id)

\* the canonical record of a suggestion
Canonical(suggestion) ==
  CHOOSE member \in Range(suggestion.members) : member.id = suggestion.canonicalId

\* C14 Canonical tie-break rules 2 to 5: the canonical record of a suggestion
\* is ahead of every other member with the same completed flag: by source rank
\* (manual > canvas > github), then by priority (critical > high > medium >
\* low), then by the earlier due date, then by the smaller id.
C14_RankedCanonical ==
  DetectorRan =>
    \A s \in Suggestions : \A member \in Range(s.members) :
      member.id # s.canonicalId /\ member.completed = Canonical(s).completed
        => AheadOf(Canonical(s), member)

\* one suggestion whose canonical record wins against one member by each of
\* the four rules
C14_Witness ==
  /\ DetectorRan
  /\ \E s \in Suggestions :
       /\ \A member \in Range(s.members) : ~member.completed
       /\ \E member \in Range(s.members) :
            SOURCE_RANK[Canonical(s).source] > SOURCE_RANK[member.source]
              /\ PRIORITY_RANK[Canonical(s).priority] < PRIORITY_RANK[member.priority]
       /\ \E member \in Range(s.members) :
            member.source = Canonical(s).source
              /\ PRIORITY_RANK[Canonical(s).priority] > PRIORITY_RANK[member.priority]
              /\ StrLess(member.id, s.canonicalId)
       /\ \E member \in Range(s.members) :
            member.source = Canonical(s).source /\ member.priority = Canonical(s).priority
              /\ DateParse(Canonical(s).dueDate) < DateParse(member.dueDate)
              /\ StrLess(member.id, s.canonicalId)
       /\ \E member \in Range(s.members) :
            member.source = Canonical(s).source /\ member.priority = Canonical(s).priority
              /\ member.dueDate = Canonical(s).dueDate
              /\ StrLess(s.canonicalId, member.id)

\* the deadlines of a list, in the order of their ids
InIdOrder(deadlines) ==
  SortBy(deadlines, [ i \in 1..Len(deadlines), j \in 1..Len(deadlines) |->
                        localeCompare(deadlines[i].id, deadlines[j].id) ])

\* the groups of a list of suggestions: the canonical id and the set of the
\* duplicate ids of each
GroupsOf(suggestions) ==
  { [ canonicalId |-> s.canonicalId, duplicateIds |-> Range(s.duplicateIds) ] :
      s \in Range(suggestions) }

\* C15 Canonical determinism: the groups returned for a list of deadlines with
\* distinct ids, each with its canonicalId and its set of duplicateIds, are
\* those returned for the same deadlines handed over in the order of their
\* ids; so every permutation of a list gives the same groups.
C15_OrderIndependent ==
  DetectorRan =>
    GroupsOf(dedup.result.suggestions)
      = GroupsOf(generateDeadlineMergeSuggestions(InIdOrder(store)))

\* a run over a list that is not in the order of its ids and has two groups,
\* one of them of three members
C15_Witness ==
  /\ DetectorRan
  /\ store # InIdOrder(store)
  /\ Cardinality(GroupsOf(dedup.result.suggestions)) = 2
  /\ \E s \in Suggestions : Len(s.duplicateIds) = 2
  /\ \E s \in Suggestions : s.canonicalId # store[1].id /\ store[1].id \in MemberIds(s)

\* C16 Merged preview: in every suggestion mergedPreview.dueDate is the
\* earliest valid due date of the members, mergedPreview.priority the highest
\* priority of the members, mergedPreview.completed is true iff some member is
\* completed, and course and task are those of the canonical record.
C16_MergedPreview ==
  DetectorRan =>
    \A s \in Suggestions :
      /\ \E member \in Range(s.members) :
           /\ s.mergedPreview.dueDate = member.dueDate
           /\ DateParse(member.dueDate) # NaN
      /\ \A member \in Range(s.members) :
           DateParse(member.dueDate) # NaN
             => DateParse(s.mergedPreview.dueDate) <= DateParse(member.dueDate)
      /\ \E member \in Range(s.members) : s.mergedPreview.priority = member.priority
      /\ \A member \in Range(s.members) :
           PRIORITY_RANK[member.priority] <= PRIORITY_RANK[s.mergedPreview.priority]
      /\ s.mergedPreview.completed <=> \E member \in Range(s.members) : member.completed
      /\ s.mergedPreview.course = Canonical(s).course
      /\ s.mergedPreview.task = Canonical(s).task

\* a suggestion whose preview takes its due date and its priority from a
\* member that is not the canonical record, and is completed because one
\* member is
C16_Witness ==
  /\ DetectorRan
  /\ \E s \in Suggestions :
       /\ DateParse(s.mergedPreview.dueDate) < DateParse(Canonical(s).dueDate)
       /\ PRIORITY_RANK[s.mergedPreview.priority] > PRIORITY_RANK[Canonical(s).priority]
       /\ s.mergedPreview.completed
       /\ \E member \in Range(s.members) : ~member.completed
       /\ \E member \in Range(s.members) : s.mergedPreview.course # member.course

C18_SuggestionOrder ==
  DetectorRan =>
    \A i \in 1..Len(dedup.result.suggestions), j \in 1..Len(dedup.result.suggestions) :
      i < j =>
        LET first == dedup.result.suggestions[i]
            later == dedup.result.suggestions[j]
        IN  /\ ~(first.confidence = "medium" /\ later.confidence = "high")
            /\ first.confidence = later.confidence
                 => Len(first.duplicateIds) >= Len(later.duplicateIds)
            /\ first.confidence = later.confidence
                 /\ Len(first.duplicateIds) = Len(later.duplicateIds)
                 => AtLeast(first.score, later.score)

\* two suggestions of equal confidence: the first has more duplicates and the
\* lower score, and its members come last in the input
C18_Witness ==
  /\ DetectorRan
  /\ Len(dedup.result.suggestions) = 2
  /\ dedup.result.suggestions[1].confidence = dedup.result.suggestions[2].confidence
  /\ Len(dedup.result.suggestions[1].duplicateIds) > Len(dedup.result.suggestions[2].duplicateIds)
  /\ ~AtLeast(dedup.result.suggestions[1].score, dedup.result.suggestions[2].score)
  /\ store[1].id \in MemberIds(dedup.result.suggestions[2])

\* ------------------------------------------------------------------------
\* Properties of a bridge run under faults.  After a run, pre is the snapshot
\* the run read, last.gone the id of the deadline deleted under it,
\* last.conflicts the places in last.candidates of the candidates
\* updateDeadline returned null for, and last.snapshot existingDeadlines at
\* the end of the run.
\* ------------------------------------------------------------------------

\* the places of the candidates with one of the outcomes
Outcomes(which) == { k \in 1..Len(last.outcomes) : last.outcomes[k] \in which }

\* C19 Write conflict is a skip: when updateDeadline returns null for the
\* deadline a candidate matched, the candidate is counted as skipped, the run
\* ends with its result, no deadline is created for the candidate, the
\* snapshot keeps the record as it was, and every candidate of the run has an
\* outcome; in the exam bridge and in the GitHub bridge.
C19_ConflictIsSkip ==
  BridgeRan /\ last.conflicts # << >> =>
    /\ \A k \in Range(last.conflicts) : last.outcomes[k] = "skipped"
    /\ last.skipped = Cardinality(Outcomes({ "skipped" }))
    /\ last.updated = Cardinality(Outcomes({ "updated" }))
    /\ last.created = Cardinality(Outcomes({ "created", "imported" }))
    /\ Len(store) = Len(pre) - 1 + last.created
    /\ \A d \in Range(store) : d.id # last.gone
    /\ \A k \in 1..Len(pre) : pre[k].id = last.gone => last.snapshot[k] = pre[k]
    /\ Len(last.outcomes) = Len(last.candidates)

\* a run of the GitHub bridge in which updateDeadline returned null for one
\* candidate and a later candidate was imported
C19_Witness ==
  /\ BridgeRan
  /\ last.bridge = "github"
  /\ \E k \in Range(last.conflicts) :
       \E n \in Outcomes({ "imported" }) : k < n

\* the course codes of the last run
RunCourses == Range(last.courseCodes)

\* the candidates the last run took from the README of course code c
ParsedFor(c) ==
  IF last.fetch[c].kind = "readme" THEN ReadmeDeadlinesOf[last.fetch[c].lines, c, last.at]
  ELSE << >>

\* the run has an error string that starts with course code c
ErrorFor(c) == \E e \in Range(last.errors) : e.course = c

\* every course code of the run with a README has its candidates reconciled,
\* each with an outcome, and what the run created or updated is in the store
OthersReconciled ==
  /\ \A c \in RunCourses :
       SelectSeq(last.candidates, LAMBDA d : d.course = c) = ParsedFor(c)
  /\ Len(last.outcomes) = Len(last.candidates)
  /\ last.created = Cardinality(Outcomes({ "imported" }))
  /\ last.updated = Cardinality(Outcomes({ "updated" }))
  /\ Len(store) = Len(pre) - (IF last.gone = 0 THEN 0 ELSE 1) + last.created
  /\ \A k \in Outcomes({ "imported", "updated" }) :
       (\A n \in Outcomes({ "imported", "updated" }) :
          n > k => ~SameKey(last.candidates[n], last.candidates[k]))
         => \E d \in Range(store) :
              SameKey(d, last.candidates[k]) /\ d.dueDate = last.candidates[k].dueDate

GithubAttempted == last.bridge = "github" /\ last.courseCodes # << >> /\ last.hasServer

\* C20 Per-course error isolation in the GitHub bridge: when the repository
\* search, the README fetch or the parsing for one course throws or finds
\* nothing, errors holds a string that starts with that course code, every
\* other course code of the run is still searched, parsed and reconciled, and
\* the creates and updates made for other courses are kept.
C20_ErrorIsolation ==
  GithubAttempted =>
    /\ \A c \in RunCourses : ParsedFor(c) = << >> => ErrorFor(c)
    /\ OthersReconciled

\* C20 as amended: the error string is added when the search or the README
\* fetch throws or finds nothing; a README in which the parser finds no
\* deadline is a course handled without an error.
C20_ErrorIsolationAmended ==
  GithubAttempted =>
    /\ \A c \in RunCourses : last.fetch[c].kind # "readme" <=> ErrorFor(c)
    /\ OthersReconciled

\* a run over two courses: the README of the first gave a deadline that was
\* imported, the search for the second threw, and the import is in the store
C20_Witness ==
  /\ GithubAttempted
  /\ Len(last.courseCodes) = 2
  /\ last.fetch[last.courseCodes[1]].kind = "readme"
  /\ last.fetch[last.courseCodes[2]].kind = "throw"
  /\ ErrorFor(last.courseCodes[2])
  /\ ~ErrorFor(last.courseCodes[1])
  /\ \E k \in Outcomes({ "imported" }) :
       /\ last.candidates[k].course = last.courseCodes[1]
       /\ \E d \in Range(store) :
            SameKey(d, last.candidates[k]) /\ d.dueDate = last.candidates[k].dueDate

\* ------------------------------------------------------------------------
\* Properties of the candidate lists the extractors hand to the matching
\* step.  last.candidates is what the last run matched against the store.
\* ------------------------------------------------------------------------

\* the normalized task key of a candidate of the last run, as its extractor
\* computes it
CandidateTaskKey(d) ==
  IF last.bridge = "exam" THEN ExamTextKey[d.task] ELSE GithubTextKey[d.task]

\* C21 Candidates are unique per task: the list an extractor hands to the
\* matching step holds, for each course, at most one candidate per
\* normalized task key.
C21_UniquePerTask ==
  BridgeRan =>
    \A i \in 1..Len(last.candidates), j \in 1..Len(last.candidates) :
      /\ i < j
      /\ last.candidates[i].course = last.candidates[j].course
      => CandidateTaskKey(last.candidates[i]) # CandidateTaskKey(last.candidates[j])

\* ------------------------------------------------------------------------
\* Properties of a parsed README.  After ParseReadme, last.candidates is the
\* list the parser returned for the lines of last.fetch.
\* ------------------------------------------------------------------------

ReadmeParsed == last.bridge = "readme"

ParsedLines == last.fetch[last.courseCodes[1]].lines

\* the deadlines a line gives when it is the only line of the README
GivenBy(line) == Range(ParseLine(<< >>, line, last.courseCodes[1], last.at))

\* the future due times the lines of the README give the task with key
FutureTimes(key) ==
  { DateParse(d.dueDate) :
      d \in { g \in UNION { GivenBy(ParsedLines[k]) : k \in 1..Len(ParsedLines) } :
                /\ GithubTextKey[g.task] = key
                /\ DateParse(g.dueDate) > last.at } }

\* the largest of a set of times
Latest(times) == CHOOSE t \in times : \A u \in times : u <= t

\* C22 README extension wins: when the lines of a README give one normalized
\* task several future due dates, the parser returns exactly one candidate
\* for the task, due at the latest of those dates, whatever the order of the
\* lines.
C22_ExtensionWins ==
  ReadmeParsed =>
    \A key \in { GithubTextKey[t] : t \in { TaskExam, TaskLab1 } } :
      FutureTimes(key) # { } =>
        /\ Cardinality({ k \in 1..Len(last.candidates) :
                           GithubTextKey[last.candidates[k].task] = key }) = 1
        /\ \A d \in Range(last.candidates) :
             GithubTextKey[d.task] = key => DateParse(d.dueDate) = Latest(FutureTimes(key))

\* a README of three lines that give the exam three future dates, the latest
\* of them on the first line, parsed to one exam candidate due at that date
C22_Witness ==
  /\ ReadmeParsed
  /\ Len(ParsedLines) = 3
  /\ Cardinality(FutureTimes(GithubTextKey[TaskExam])) = 3
  /\ Range(ParseLine(<< >>, ParsedLines[1], last.courseCodes[1], last.at))
       = { d \in Range(last.candidates) : GithubTextKey[d.task] = GithubTextKey[TaskExam] }
  /\ Len(last.candidates) = 1
  /\ DateParse(last.candidates[1].dueDate) = T2

\* ------------------------------------------------------------------------
\* Properties of the sub-agent jobs.  jobs holds the runs in flight: every
\* job between the schedule call that returned true and the end of its run;
\* called is the last schedule call or end of a run, with what it returned.
\* ------------------------------------------------------------------------

\* the runs in flight for a key, in a list of jobs
RunsFor(key, running) == { i \in 1..Len(running) : JobKey(running[i].job) = key }

\* a step that is a call of scheduleTpGithubDeadlineSubAgent
ScheduleStep == called'.op = "schedule" /\ called' # called

\* C23 Non-overlapping GitHub import jobs: at most one run per
\* (userId, githubServerId) is in flight at any time; a schedule call for a
\* key that has a run in flight returns false and starts no run, and a call
\* for a key with no run in flight returns true and starts exactly one run.
C23_NonOverlappingJobs ==
  [][ /\ \A job \in JobPool : Cardinality(RunsFor(JobKey(job), jobs')) <= 1
      /\ ScheduleStep =>
           IF RunsFor(called'.key, jobs) # { }
           THEN called'.ret = FALSE /\ jobs' = jobs
           ELSE /\ called'.ret = TRUE
                /\ Len(jobs') = Len(jobs) + 1
                /\ SubSeq(jobs', 1, Len(jobs)) = jobs
                /\ JobKey(jobs'[Len(jobs')].job) = called'.key
                /\ jobs'[Len(jobs')].pc = "timer" ]_vars

\* a schedule call returned false for a key whose run is in its tool loop,
\* while the job of another key is in flight too
C23_Witness ==
  /\ called.op = "schedule"
  /\ ~called.ret
  /\ Len(jobs) = 2
  /\ \E i \in RunsFor(called.key, jobs) : jobs[i].pc = "loop" /\ jobs[i].round > 0

\* ------------------------------------------------------------------------
\* Properties of the Canvas sync service.  canvas.syncs[k] is the k-th call
\* of sync(): pc 0 when it has returned, with its result.
\* ------------------------------------------------------------------------

\* the calls of sync() that have not returned
SyncsInProgress == { k \in 1..Len(canvas.syncs) : canvas.syncs[k].pc # 0 }

\* C24 Canvas sync prevents concurrent syncs: at most one sync is in progress
\* at a time, and of two calls of sync() of which the second was made before
\* the first had returned, exactly one returns success = true and the other
\* returns success = false with error "Sync already in progress".
C24_NoConcurrentSync ==
  /\ Cardinality(SyncsInProgress) <= 1
  /\ \A k \in 1..Len(canvas.syncs) : \A j \in canvas.syncs[k].during :
       canvas.syncs[j].pc = 0 /\ canvas.syncs[k].pc = 0 =>
         \E won \in { j, k }, lost \in { j, k } :
           /\ won # lost
           /\ canvas.syncs[won].success
           /\ ~canvas.syncs[lost].success
           /\ canvas.syncs[lost].error = "Sync already in progress"

\* ------------------------------------------------------------------------
\* Properties of runs that follow user edits
\* ------------------------------------------------------------------------

\* C25: once the user has set the due date of an automation-managed deadline
\* to another value than its sourceDueDate, no bridge run changes that due
\* date, whatever the source dates of the runs are, until the user edits the
\* deadline again.
C25_UserEditsSurvive ==
  \A e \in edited : \A i \in 1..Len(store) :
    store[i].id = e.id => store[i].dueDate = e.dueDate

\* ------------------------------------------------------------------------
\* Properties of the course matching of the bridges
\* ------------------------------------------------------------------------

\* normalizeCourseKey of the similarity engine, for every label of the model
EngineCourseKey == Tabulate([ s \in Labels |-> dedup_normalizeCourseKey(s) ])

\* the bridge of the last run takes a and b for deadlines of one course
SameCourse(a, b) ==
  IF last.bridge = "exam"
  THEN ExamTextKey[a.course] = ExamTextKey[b.course]
  ELSE GithubCourseKey[a.course] = GithubCourseKey[b.course]

\* C26: in every bridge run a stored deadline and a candidate count as the
\* same course exactly when the similarity engine's normalized course keys of
\* their course labels are equal, and a manual record of the same course (by
\* the engine's key) and the same task blocks the creation of the candidate:
\* its outcome is "skipped".
C26_OneCourseNormalization ==
  BridgeRan =>
    \A i \in Stored, k \in Candidates :
      /\ SameCourse(pre[i], last.candidates[k])
           <=> EngineCourseKey[pre[i].course] = EngineCourseKey[last.candidates[k].course]
      /\ ( /\ ~Truthy(pre[i].sourceDueDate)
           /\ EngineCourseKey[pre[i].course] = EngineCourseKey[last.candidates[k].course]
           /\ CandidateTaskKey(pre[i]) = CandidateTaskKey(last.candidates[k]) )
         => last.outcomes[k] = "skipped"

\* ------------------------------------------------------------------------
\* Properties of the suggestions as a partition of the duplicates
\* ------------------------------------------------------------------------

\* the suggestions of the result, by their place in the list
SuggestionAt(k) == dedup.result.suggestions[k]

\* the deadline at place a of the input has no duplicate verdict against any
\* other deadline of the input
Alone(a) ==
  \A b \in 1..Len(dedup.input) :
    a # b => /\ ~SignalBetween(dedup.input[a], dedup.input[b]).isDuplicate
             /\ ~SignalBetween(dedup.input[b], dedup.input[a]).isDuplicate

\* C27: for every input list with distinct ids, each deadline id appears in
\* at most one suggestion of the result; in a suggestion the canonicalId is
\* not among the duplicateIds, duplicateIds has no repeats and at least one
\* element, and members is the canonical record followed by the duplicates;
\* a deadline with no duplicate verdict against any other deadline is in no
\* suggestion.
C27_SuggestionsPartition ==
  ( /\ DetectorRan
    /\ \A a, b \in 1..Len(dedup.input) : a # b => dedup.input[a].id # dedup.input[b].id )
  =>
    /\ \A k, l \in 1..Len(dedup.result.suggestions) :
         k # l => MemberIds(SuggestionAt(k)) \cap MemberIds(SuggestionAt(l)) = { }
    /\ \A s \in Suggestions :
         /\ s.canonicalId \notin Range(s.duplicateIds)
         /\ Cardinality(Range(s.duplicateIds)) = Len(s.duplicateIds)
         /\ Len(s.duplicateIds) >= 1
         /\ [ k \in 1..Len(s.members) |-> s.members[k].id ] = << s.canonicalId >> \o s.duplicateIds
         /\ \A k \in 1..Len(s.members) :
              \E a \in 1..Len(dedup.input) : dedup.input[a].id = s.members[k].id
    /\ \A a \in 1..Len(dedup.input) :
         Alone(a) => \A s \in Suggestions : dedup.input[a].id \notin MemberIds(s)

\* a result with two suggestions, one of them with two duplicates, over a
\* list with distinct ids
C27_Witness ==
  /\ DetectorRan
  /\ \A a, b \in 1..Len(dedup.input) : a # b => dedup.input[a].id # dedup.input[b].id
  /\ Len(dedup.result.suggestions) >= 2
  /\ \E s \in Suggestions : Len(s.duplicateIds) >= 2

\* ------------------------------------------------------------------------
\* Properties of the counters of a bridge run
\* ------------------------------------------------------------------------

\* C28 (counter conservation): in every bridge run each candidate handed to
\* the matching step has exactly one outcome and each counter is the number of
\* candidates with its outcome, so created (imported) + updated + skipped is
\* the number of candidates; for syncExamDeadlines createdDeadlines has
\* created elements, the deadlines the run added to the store.
C28_CounterConservation ==
  BridgeRan =>
    /\ Len(last.outcomes) = Len(last.candidates)
    /\ last.created = Cardinality(Outcomes({ "created", "imported" }))
    /\ last.updated = Cardinality(Outcomes({ "updated" }))
    /\ last.skipped = Cardinality(Outcomes({ "skipped" }))
    /\ last.created + last.updated + last.skipped = Len(last.candidates)
    /\ last.bridge = "exam" =>
         /\ Len(last.createdDeadlines) = last.created
         /\ \A k \in 1..Len(last.createdDeadlines) :
              /\ \E i \in 1..Len(store) : store[i].id = last.createdDeadlines[k].id
              /\ \A i \in 1..Len(pre) : pre[i].id # last.createdDeadlines[k].id

\* an exam run that created a deadline and skipped or updated for another
\* candidate
C28_Witness ==
  /\ last.bridge = "exam"
  /\ last.created >= 1
  /\ last.updated + last.skipped >= 1

\* ------------------------------------------------------------------------
\* Liveness of the sub-agent scheduler
\* ------------------------------------------------------------------------

ThrownEntries(result) ==
  { k \in 1..Len(result.errors) : result.errors[k][2] \in { "throws", "throwsRateLimit" } }

\* C30: a run asks the model for at most MAX_FUNCTION_ROUNDS responses and
\* then returns a result object, also when every response holds function
\* calls; a tool call that throws gives an error response and an errors
\* entry with the name of the tool, the run goes on with the next round, and
\* the only run that rejects is one that has not asked the model at all.
C30_LoopTerminates ==
  /\ \A i \in 1..Len(jobs) :
       /\ jobs[i].requests <= MAX_FUNCTION_ROUNDS
       /\ jobs[i].pc = "loop" =>
            /\ jobs[i].round = jobs[i].requests
            /\ jobs[i].round < MAX_FUNCTION_ROUNDS
       /\ \A k \in 1..Len(jobs[i].roundResponses) :
            jobs[i].roundResponses[k].response = "error: thrown" =>
              /\ jobs[i].pc = "loop"
              /\ \E e \in ThrownEntries(jobs[i].result) :
                   jobs[i].result.errors[e][1] = jobs[i].roundResponses[k].name
  /\ called.op = "settled" =>
       /\ called.requests <= MAX_FUNCTION_ROUNDS
       /\ called.outcome = "rejected" => called.requests = 0
       /\ called.requests > 0 => called.outcome = "returned" /\ called.result.attempted

\* a run that asked the model MAX_FUNCTION_ROUNDS times, got function calls
\* each time, one of which threw, and returned its result
C30_Witness ==
  /\ called.op = "settled"
  /\ called.requests = MAX_FUNCTION_ROUNDS
  /\ called.outcome = "returned"
  /\ ThrownEntries(called.result) # { }
  /\ \A k \in 1..Len(called.result.errors) : called.result.errors[k][1] # "run"

====
